---- MODULE Spec2Model ----
(***************************************************************************)
(* Model of the S-IMSY reporting sync worker (src/src/index.ts and the     *)
(* table pipelines under src/src/sync).  One run of scheduled() is a pass  *)
(* through the stages endpoints, instances, usage, bundles, backfill and   *)
(* refresh; the per-table watermarks live in the KV store, the rows in the *)
(* reporting database.                                                     *)
(***************************************************************************)
EXTENDS Integers, Sequences, FiniteSets, TLC

\* ---------------------------------------------------------------- bounds
\* Largest timestamp a source row carries in its watermark column.
MaxTime == 2
\* Largest value of the worker's wall clock: it advances by one from run to
\* run and stops there.
MaxClock == 2
\* Largest number of rows in the four source tables together.
MaxRows == 3
\* Largest number of failures (failed request, statement or put inside the
\* try block of scheduled()) injected in one behaviour.
MaxFaults == 1
\* Largest SYNC_BATCH_SIZE (page size) the environment may configure.
MaxBatch == 2
\* Rows per INSERT statement (500 in the source, scaled down).
BULK_INSERT_SIZE == 1
\* Records fetched per usage run (50000 in the source, scaled down).
MAX_RECORDS_PER_RUN == 2

\* ------------------------------------------------------------- constants
\* fetchAll's safety ceiling on the offset.
SafetyOffset == 1000000
\* KV.get() of a key that was never put returns null.
Null == 0

Tables == {"endpoints", "instances", "usage", "bundles"}
\* StageOrder with the usage pipeline called before the instances pipeline.
StageOrderUsageEarly ==
    <<"endpoints", "usage", "instances", "bundles", "backfill", "refresh">>

\* The order in which scheduled() calls the stages.
StageOrder == <<"endpoints", "instances", "usage", "bundles", "backfill", "refresh">>

Min(a, b) == IF a < b THEN a ELSE b

Last(s) == s[Len(s)]

\* A source row: its key, the value of the table's watermark column and
\* whether its tenant resolves to a canonical tenant id.
RowData == [wm : 1..MaxTime, ok : BOOLEAN]

\* fetchAll orders by created_at unless told otherwise: the endpoints
\* pipeline filters on updated_at and so gets rows that are not ordered by
\* its watermark column; the other pipelines order by the column they
\* filter on.
OrderedByWatermark(t) == t # "endpoints"

\* The tables a source can hold with len rows, in the order the server
\* returns them; the key of a row is its position.
SourcesOfLen(t, len) ==
    { [k \in 1..len |-> [id |-> k, wm |-> f[k].wm, ok |-> f[k].ok]] :
        f \in { g \in [1..len -> RowData] :
                  OrderedByWatermark(t) =>
                      \A k \in 1..(len - 1) : g[k].wm <= g[k + 1].wm } }

SourcesUpTo(t, n) == UNION { SourcesOfLen(t, len) : len \in 0..n }

\* "maxRecords" option of each pipeline's fetchAll call (0: not given).
MaxRecordsOf(t) == IF t = "usage" THEN MAX_RECORDS_PER_RUN ELSE 0

VARIABLES
    src,          \* the source tables (Supabase)
    batchSize,    \* env.SYNC_BATCH_SIZE
    clock,        \* the worker's wall clock
    kv,           \* SYNC_KV: the watermark keys
    lastRun,      \* SYNC_KV: sync:last_run
    lastResult,   \* SYNC_KV: sync:last_result
    tgt,          \* the target tables: keys of the rows present
    pc,           \* position of scheduled()
    stage,        \* index in StageOrder of the current stage
    now,          \* the "now" of the run (index.ts line 72)
    watermarks,   \* the watermarks read at the start of the run
    results,      \* the run's SyncResult list
    records,      \* current pipeline: the rows fetched
    mapped,       \* current pipeline: the rows mapped for writing
    i,            \* current pipeline: offset of the next chunk
    recordsSynced,\* current pipeline: rows written so far
    started,      \* history: the stages called in this run, in order
    inProgress,   \* history: the stages called and not yet returned
    fetched,      \* history: the rows each pipeline fetched in this run
    wmWrites,     \* history: watermark puts per table in this run
    kvAtStart,    \* history: the stored watermarks when the run started
    failed,       \* history: the tables whose pipeline had a failure in this run
    faults,       \* history: the failures outside the pipelines in this run
    nfaults,      \* history: the failures injected so far
    escaped,      \* history: an exception left scheduled()
    prev,         \* history: how the run before this one went
    probe         \* a function of the worker applied on its own: its
                  \* arguments and, once it returned, its result

vars == <<src, batchSize, clock, kv, lastRun, lastResult, tgt, pc, stage, now,
          watermarks, results, records, mapped, i, recordsSynced, started,
          inProgress, fetched, wmWrites, kvAtStart, failed, faults, nfaults,
          escaped, prev, probe>>

\* The state of scheduled() and of the stores it works on.
worker == <<src, batchSize, clock, kv, lastRun, lastResult, tgt, pc, stage,
            now, watermarks, results, records, mapped, i, recordsSynced,
            started, inProgress, fetched, wmWrites, kvAtStart, failed, faults,
            nfaults, escaped, prev>>

store == <<kv, lastRun, lastResult, tgt>>
\* What no step of scheduled() changes.
config == <<src, batchSize, probe>>
pipeline == <<records, mapped, i, recordsSynced>>

NoResult == [status |-> "none", results |-> <<>>]

\* No function is applied on its own.
NoProbe == [fn |-> "none"]

\* There was no run before.
NoPrev == [ran |-> FALSE]

\* The worker before its first run.
Idle ==
    /\ clock = 1
    /\ kv = [t \in Tables |-> Null]
    /\ lastRun = Null
    /\ lastResult = NoResult
    /\ tgt = [t \in Tables |-> {}]
    /\ pc = "idle"
    /\ stage = 0
    /\ now = Null
    /\ watermarks = [t \in Tables |-> Null]
    /\ results = <<>>
    /\ records = <<>>
    /\ mapped = <<>>
    /\ i = 0
    /\ recordsSynced = 0
    /\ started = <<>>
    /\ inProgress = {}
    /\ fetched = [t \in Tables |-> <<>>]
    /\ wmWrites = [t \in Tables |-> 0]
    /\ kvAtStart = [t \in Tables |-> Null]
    /\ failed = {}
    /\ faults = {}
    /\ nfaults = 0
    /\ escaped = FALSE
    /\ prev = NoPrev

Init ==
    /\ \E e \in SourcesUpTo("endpoints", MaxRows) :
       \E n \in SourcesUpTo("instances", MaxRows - Len(e)) :
       \E u \in SourcesUpTo("usage", MaxRows - Len(e) - Len(n)) :
       \E b \in SourcesUpTo("bundles", MaxRows - Len(e) - Len(n) - Len(u)) :
           src = [t \in Tables |-> CASE t = "endpoints" -> e
                                    [] t = "instances" -> n
                                    [] t = "usage" -> u
                                    [] OTHER -> b]
    /\ batchSize \in 1..MaxBatch
    /\ Idle
    /\ probe = NoProbe

\* ------------------------------------------------------------ SourceReader
\* Filtered with the comparison reversed ("lt." instead of "gt.").
FilteredLt(rows, watermark) ==
    SelectSeq(rows, LAMBDA r : watermark = Null \/ r.wm < watermark)

\* Filtered with "gte." instead of "gt.": a row at the watermark is selected
\* again.
FilteredGte(rows, watermark) ==
    SelectSeq(rows, LAMBDA r : watermark = Null \/ r.wm >= watermark)

\* The rows the server selects for "<watermarkColumn>=gt.<watermark>",
\* in ascending order; no filter is sent when the watermark is null.
Filtered(rows, watermark) ==
    SelectSeq(rows, LAMBDA r : watermark = Null \/ r.wm > watermark)

\* The pagination loop of fetchAll over successful responses: "rows" is what
\* the server selects, "allRecords" the rows accumulated so far.
RECURSIVE FetchLoop(_, _, _, _, _)
FetchLoop(rows, allRecords, offset, size, maxRecords) ==
    LET page == SubSeq(rows, offset + 1, Min(offset + size, Len(rows)))
        acc  == allRecords \o page
    IN  IF maxRecords # 0 /\ Len(acc) >= maxRecords THEN acc
        ELSE IF offset + size >= Len(rows) THEN acc
        ELSE IF Len(page) < size THEN acc
        ELSE IF offset + size > SafetyOffset THEN acc
        ELSE FetchLoop(rows, acc, offset + size, size, maxRecords)

fetchAll(rows, watermark, size, maxRecords) ==
    FetchLoop(Filtered(rows, watermark), <<>>, 0, size, maxRecords)

\* ------------------------------------------------------------ RecordMapper
\* The rows of a fetched window that are written: rows whose tenant does not
\* resolve are skipped ("continue").  (syncBundles also skips a repeated
\* bundle_id/tenant pair; the keys of the source rows are distinct here.)
MapRecords(recs) == SelectSeq(recs, LAMBDA r : r.ok)

Ids(rows) == { rows[k].id : k \in 1..Len(rows) }

\* --------------------------------------------------------- SyncOrchestrator
CurStage == StageOrder[stage]

Status(rs) ==
    IF \E k \in 1..Len(rs) : rs[k].error THEN "partial" ELSE "success"

\* Return of a pipeline without the try/catch around its body: a failure
\* is raised to scheduled() instead of being returned in the SyncResult.
ReturnUncaught(t, n, err) ==
    /\ results' = IF err THEN results
                  ELSE Append(results, [table |-> t, recordsSynced |-> n, error |-> err])
    /\ inProgress' = inProgress \ {t}
    /\ pc' = IF err THEN "catch" ELSE "commit"
    /\ records' = <<>>
    /\ mapped' = <<>>
    /\ i' = 0
    /\ recordsSynced' = 0

\* A pipeline returns its SyncResult to scheduled(), which pushes it.
Return(t, n, err) ==
    /\ results' = Append(results, [table |-> t, recordsSynced |-> n, error |-> err])
    /\ inProgress' = inProgress \ {t}
    /\ pc' = "commit"
    /\ records' = <<>>
    /\ mapped' = <<>>
    /\ i' = 0
    /\ recordsSynced' = 0

\* An exception reaches the catch block of scheduled().
Throw(f) ==
    /\ pc' = "catch"
    /\ faults' = faults \cup {f}

\* The cron trigger (or POST /trigger) invokes scheduled(); "bounded" stops
\* the triggers once the clock has reached MaxClock.
Trigger(bounded) ==
    /\ pc \in {"idle", "done"}
    /\ bounded /\ pc = "done" => clock < MaxClock
    /\ pc' = "setup"
    /\ clock' = IF pc = "done" THEN Min(clock + 1, MaxClock) ELSE clock
    /\ stage' = 0
    /\ now' = Null
    /\ watermarks' = [t \in Tables |-> Null]
    /\ results' = <<>>
    /\ started' = <<>>
    /\ inProgress' = {}
    /\ fetched' = [t \in Tables |-> <<>>]
    /\ wmWrites' = [t \in Tables |-> 0]
    /\ kvAtStart' = kv
    /\ prev' = IF pc = "done"
               THEN [ran |-> TRUE, now |-> now,
                     clean |-> /\ failed = {}
                               /\ "wmput" \notin faults
                               /\ Len(results) = Cardinality(Tables),
                     hasMore |-> Len(fetched["usage"]) >= MAX_RECORDS_PER_RUN]
               ELSE prev
    /\ failed' = {}
    /\ faults' = {}
    /\ escaped' = FALSE
    /\ UNCHANGED <<config, store, pipeline, nfaults>>

\* Clients, the four KV.get calls, the tenant seeding and "now".
Setup(fail) ==
    /\ pc = "setup"
    /\ IF fail
       THEN /\ Throw("setup")
            /\ UNCHANGED <<stage, now, watermarks>>
       ELSE /\ watermarks' = kv
            /\ now' = clock
            /\ stage' = 1
            /\ pc' = "call"
            /\ UNCHANGED faults
    /\ UNCHANGED <<config, clock, store, results, pipeline, started, inProgress,
                   fetched, wmWrites, kvAtStart, prev, failed, escaped>>

\* scheduled() calls the next stage.
CallStage ==
    /\ pc = "call"
    /\ started' = Append(started, CurStage)
    /\ inProgress' = inProgress \cup {CurStage}
    /\ pc' = IF CurStage \in Tables THEN "fetch" ELSE CurStage
    /\ UNCHANGED <<config, clock, store, stage, now, watermarks, results, pipeline,
                   fetched, wmWrites, kvAtStart, prev, failed, faults, nfaults, escaped>>

\* A table pipeline up to its first write: fetchAll and the mapping loop.
Fetch(fail) ==
    /\ pc = "fetch"
    /\ LET t    == CurStage
           recs == fetchAll(src[t], watermarks[t], batchSize, MaxRecordsOf(t))
           m    == MapRecords(recs)
       IN  IF fail
           THEN /\ Return(t, 0, TRUE)
                /\ failed' = failed \cup {t}
                /\ UNCHANGED fetched
           ELSE /\ fetched' = [fetched EXCEPT ![t] = recs]
                /\ UNCHANGED failed
                /\ IF Len(recs) = 0 \/ Len(m) = 0
                   THEN Return(t, 0, FALSE)
                   ELSE /\ records' = recs
                        /\ mapped' = m
                        /\ i' = 0
                        /\ recordsSynced' = 0
                        /\ pc' = "write"
                        /\ UNCHANGED <<results, inProgress>>
    /\ UNCHANGED <<config, clock, store, stage, now, watermarks, started,
                   wmWrites, kvAtStart, prev, faults, escaped>>

\* WriteChunk counting the rows of the chunk before its statement returned.
WriteChunkCountsEarly(fail) ==
    /\ pc = "write"
    /\ LET t     == CurStage
           chunk == SubSeq(mapped, i + 1, Min(i + BULK_INSERT_SIZE, Len(mapped)))
       IN  IF fail
           THEN /\ Return(t, recordsSynced + Len(chunk), TRUE)
                /\ failed' = failed \cup {t}
                /\ UNCHANGED tgt
           ELSE /\ tgt' = [tgt EXCEPT ![t] = @ \cup Ids(chunk)]
                /\ recordsSynced' = recordsSynced + Len(chunk)
                /\ i' = i + BULK_INSERT_SIZE
                /\ pc' = IF i + BULK_INSERT_SIZE < Len(mapped) THEN "write" ELSE "finish"
                /\ UNCHANGED <<results, inProgress, records, mapped, failed>>
    /\ UNCHANGED <<config, clock, kv, lastRun, lastResult, stage, now, watermarks,
                   started, fetched, wmWrites, kvAtStart, prev, faults, escaped>>

\* One iteration of the bulk insert loop.
WriteChunk(fail) ==
    /\ pc = "write"
    /\ LET t     == CurStage
           chunk == SubSeq(mapped, i + 1, Min(i + BULK_INSERT_SIZE, Len(mapped)))
       IN  IF fail
           THEN /\ Return(t, recordsSynced, TRUE)
                /\ failed' = failed \cup {t}
                /\ UNCHANGED tgt
           ELSE /\ tgt' = [tgt EXCEPT ![t] = @ \cup Ids(chunk)]
                /\ recordsSynced' = recordsSynced + Len(chunk)
                /\ i' = i + BULK_INSERT_SIZE
                /\ pc' = IF i + BULK_INSERT_SIZE < Len(mapped) THEN "write" ELSE "finish"
                /\ UNCHANGED <<results, inProgress, records, mapped, failed>>
    /\ UNCHANGED <<config, clock, kv, lastRun, lastResult, stage, now, watermarks,
                   started, fetched, wmWrites, kvAtStart, prev, faults, escaped>>

\* The end of a table pipeline after its last chunk; syncUsage saves its
\* watermark here through the saveWatermark callback.
Finish(fail) ==
    /\ pc = "finish"
    /\ LET t == CurStage
           lastWatermark == Last(records).wm
       IN  IF t = "usage" /\ Len(records) > 0 /\ lastWatermark # Null
           THEN IF fail
                THEN /\ Return(t, recordsSynced, TRUE)
                     /\ failed' = failed \cup {t}
                     /\ UNCHANGED <<kv, wmWrites>>
                ELSE /\ kv' = [kv EXCEPT ![t] = lastWatermark]
                     /\ wmWrites' = [wmWrites EXCEPT ![t] = @ + 1]
                     /\ Return(t, recordsSynced, FALSE)
                     /\ UNCHANGED failed
           ELSE /\ ~fail
                /\ Return(t, recordsSynced, FALSE)
                /\ UNCHANGED <<kv, wmWrites, failed>>
    /\ UNCHANGED <<config, clock, lastRun, lastResult, tgt, stage, now, watermarks,
                   started, fetched, kvAtStart, prev, faults, escaped>>

\* CommitValue putting back the watermark read at the start of the run.
CommitValueStale(t) == watermarks[t]

\* CommitValue taking the watermark column of the last record fetched.
CommitValueLastRecord(t) == Last(fetched[t]).wm

\* The watermark value scheduled() puts for table t.
CommitValue(t) == now

\* Commit without the test of the pipeline's result: the watermark is put
\* whatever the pipeline returned.
CommitUnguarded(fail) ==
    /\ pc = "commit"
    /\ LET t == CurStage
       IN  IF t # "usage"
           THEN IF fail
                THEN /\ Throw("wmput")
                     /\ UNCHANGED <<kv, wmWrites, stage>>
                ELSE /\ kv' = [kv EXCEPT ![t] = CommitValue(t)]
                     /\ wmWrites' = [wmWrites EXCEPT ![t] = @ + 1]
                     /\ stage' = stage + 1
                     /\ pc' = "call"
                     /\ UNCHANGED faults
           ELSE /\ ~fail
                /\ stage' = stage + 1
                /\ pc' = "call"
                /\ UNCHANGED <<kv, wmWrites, faults>>
    /\ UNCHANGED <<config, clock, lastRun, lastResult, tgt, now, watermarks, results,
                   pipeline, started, inProgress, fetched, kvAtStart, prev, failed, escaped>>

\* scheduled() after a pipeline returned: the watermark put of the tables
\* whose pipeline does not save it itself (for usage the condition guards
\* an empty block).
Commit(fail) ==
    /\ pc = "commit"
    /\ LET t == CurStage
           r == Last(results)
       IN  IF t # "usage" /\ ~r.error /\ r.recordsSynced > 0
           THEN IF fail
                THEN /\ Throw("wmput")
                     /\ UNCHANGED <<kv, wmWrites, stage>>
                ELSE /\ kv' = [kv EXCEPT ![t] = CommitValue(t)]
                     /\ wmWrites' = [wmWrites EXCEPT ![t] = @ + 1]
                     /\ stage' = stage + 1
                     /\ pc' = "call"
                     /\ UNCHANGED faults
           ELSE /\ ~fail
                /\ stage' = stage + 1
                /\ pc' = "call"
                /\ UNCHANGED <<kv, wmWrites, faults>>
    /\ UNCHANGED <<config, clock, lastRun, lastResult, tgt, now, watermarks, results,
                   pipeline, started, inProgress, fetched, kvAtStart, prev, failed, escaped>>

\* Backfill without the try/catch inside backfillBundleUsage.
BackfillUncaught(fail) ==
    /\ pc = "backfill"
    /\ faults' = IF fail THEN faults \cup {"backfill"} ELSE faults
    /\ inProgress' = inProgress \ {"backfill"}
    /\ stage' = IF fail THEN stage ELSE stage + 1
    /\ pc' = IF fail THEN "catch" ELSE "call"
    /\ UNCHANGED <<config, clock, store, now, watermarks, results, pipeline, started,
                   fetched, wmWrites, kvAtStart, prev, failed, escaped>>

\* backfillBundleUsage: a failing statement is caught and logged inside.
Backfill(fail) ==
    /\ pc = "backfill"
    /\ faults' = IF fail THEN faults \cup {"backfill"} ELSE faults
    /\ inProgress' = inProgress \ {"backfill"}
    /\ stage' = stage + 1
    /\ pc' = "call"
    /\ UNCHANGED <<config, clock, store, now, watermarks, results, pipeline, started,
                   fetched, wmWrites, kvAtStart, prev, failed, escaped>>

\* refreshMaterialisedViews: a view whose two attempts fail is logged inside.
Refresh(fail) ==
    /\ pc = "refresh"
    /\ faults' = IF fail THEN faults \cup {"refresh"} ELSE faults
    /\ inProgress' = inProgress \ {"refresh"}
    /\ pc' = "lastrun"
    /\ UNCHANGED <<config, clock, store, stage, now, watermarks, results, pipeline,
                   started, fetched, wmWrites, kvAtStart, prev, failed, escaped>>

\* put('sync:last_run', now)
PutLastRun(fail) ==
    /\ pc = "lastrun"
    /\ IF fail
       THEN /\ Throw("kvput")
            /\ UNCHANGED lastRun
       ELSE /\ lastRun' = now
            /\ pc' = "summary"
            /\ UNCHANGED faults
    /\ UNCHANGED <<config, clock, kv, lastResult, tgt, stage, now, watermarks, results,
                   pipeline, started, inProgress, fetched, wmWrites, kvAtStart, prev, failed, escaped>>

\* put('sync:last_result', {results, status})
PutLastResult(fail) ==
    /\ pc = "summary"
    /\ IF fail
       THEN /\ Throw("kvput")
            /\ UNCHANGED lastResult
       ELSE /\ lastResult' = [status |-> Status(results), results |-> results]
            /\ pc' = "end"
            /\ UNCHANGED faults
    /\ UNCHANGED <<config, clock, kv, lastRun, tgt, stage, now, watermarks, results,
                   pipeline, started, inProgress, fetched, wmWrites, kvAtStart, prev, failed, escaped>>

\* sql.end()
SqlEnd(fail) ==
    /\ pc = "end"
    /\ IF fail
       THEN Throw("sqlend")
       ELSE /\ pc' = "done"
            /\ UNCHANGED faults
    /\ UNCHANGED <<config, clock, store, stage, now, watermarks, results, pipeline,
                   started, inProgress, fetched, wmWrites, kvAtStart, prev, failed, escaped>>

\* The catch block of scheduled(): put('sync:last_result', {status: 'failed'}).
\* Nothing catches an exception of this put (it is not counted in nfaults:
\* a store that failed in the try block may well fail again here).
Catch(fail) ==
    /\ pc = "catch"
    /\ pc' = "done"
    /\ IF fail
       THEN /\ escaped' = TRUE
            /\ faults' = faults \cup {"handlerput"}
            /\ UNCHANGED lastResult
       ELSE /\ lastResult' = [status |-> "failed", results |-> results]
            /\ UNCHANGED <<escaped, faults>>
    /\ UNCHANGED <<config, clock, kv, lastRun, tgt, stage, now, watermarks, results,
                   pipeline, started, inProgress, fetched, wmWrites, kvAtStart, prev, failed,
                   nfaults>>

\* A step of scheduled() in which a request, statement or put fails
\* (fail = TRUE) or succeeds.
Step(fail) ==
    /\ fail => nfaults < MaxFaults
    /\ nfaults' = IF fail THEN nfaults + 1 ELSE nfaults
    /\ \/ Setup(fail)
       \/ Fetch(fail)
       \/ WriteChunk(fail)
       \/ Finish(fail)
       \/ Commit(fail)
       \/ Backfill(fail)
       \/ Refresh(fail)
       \/ PutLastRun(fail)
       \/ PutLastResult(fail)
       \/ SqlEnd(fail)

StartRun == Trigger(TRUE)

Next ==
    \/ StartRun
    \/ CallStage
    \/ \E fail \in BOOLEAN : Step(fail)
    \/ \E fail \in BOOLEAN : Catch(fail)

Spec == Init /\ [][Next]_vars

\* Repeated scheduled runs in which no fetch, write or put fails.
Restart == Trigger(FALSE)

NextOk ==
    \/ Restart
    \/ CallStage
    \/ Step(FALSE)

LiveSpec == Init /\ [][NextOk]_vars /\ WF_vars(NextOk)

TypeOK ==
    /\ pc \in {"idle", "setup", "call", "fetch", "write", "finish", "commit",
               "backfill", "refresh", "lastrun", "summary", "end", "catch", "done"}
    /\ kv \in [Tables -> 0..MaxClock]
    /\ \A t \in Tables : tgt[t] \subseteq Ids(src[t])

\* ------------------------------------------------------------------ claims
\* The SyncResult the pipeline of table t returned in this run, if any.
HasResult(t) == \E k \in 1..Len(results) : results[k].table = t
ResultOf(t) == results[CHOOSE k \in 1..Len(results) : results[k].table = t]

\* The rows of table t the run's filter selects and the run did not fetch.
NotFetched(t) ==
    { k \in 1..Len(src[t]) :
        /\ watermarks[t] = Null \/ src[t][k].wm > watermarks[t]
        /\ k \notin Ids(fetched[t]) }

\* C1: over the runs, no step lowers the stored watermark of a table: what a
\* run puts is at least the value that was stored before.
C1_WatermarkNeverDecreases == [][\A t \in Tables : kv'[t] >= kv[t]]_vars

\* A run has put the watermark of a table that already had one.
C1_Witness ==
    \E t \in Tables : wmWrites[t] = 1 /\ kvAtStart[t] # Null /\ kv[t] > kvAtStart[t]

\* C2: in a run the watermark of a table is put at most once, and only when
\* its pipeline returned without error, with recordsSynced >= 1 and all its
\* chunks written; otherwise the stored watermark is the one the run found.
C2_WatermarkWrittenOnceAfterSuccess ==
    \A t \in Tables :
        /\ wmWrites[t] <= 1
        /\ wmWrites[t] = 1 =>
              /\ HasResult(t)
              /\ ~ResultOf(t).error
              /\ ResultOf(t).recordsSynced >= 1
              /\ ResultOf(t).recordsSynced = Len(MapRecords(fetched[t]))
              /\ Ids(MapRecords(fetched[t])) \subseteq tgt[t]
              /\ t \notin failed
        /\ wmWrites[t] = 0 => kv[t] = kvAtStart[t]

\* A watermark was put after a pipeline wrote more than one chunk.
C2_Witness ==
    \E t \in Tables :
        wmWrites[t] = 1 /\ Len(MapRecords(fetched[t])) > BULK_INSERT_SIZE

\* C3: once a usage run that was cut by maxRecords has saved its watermark,
\* every usage row the run's filter selected and the run did not fetch has
\* created_at > the saved watermark (so the next run fetches it).
C3_TruncationLosesNoRecord ==
    (wmWrites["usage"] = 1 /\ Len(fetched["usage"]) >= MAX_RECORDS_PER_RUN) =>
        \A k \in NotFetched("usage") : src["usage"][k].wm > kv["usage"]

\* Every source row whose tenant resolves is in the target table.
Converged == \A t \in Tables : \A k \in 1..Len(src[t]) : src[t][k].ok => k \in tgt[t]

\* C4: under repeated runs without failures over an unchanging source, the
\* target eventually holds every source row whose tenant resolves, and
\* keeps holding it.
C4_Convergence == <>[]Converged

LaterTables(t) ==
    CASE t = "endpoints" -> {"instances", "usage", "bundles"}
      [] t = "instances" -> {"usage", "bundles"}
      [] t = "usage" -> {"bundles"}
      [] OTHER -> {}

\* C6: a failure inside the pipeline of a table is returned as the error of
\* that table's SyncResult, and the run goes on: when the run is over the
\* pipelines of all later tables have been called and have returned (unless
\* a watermark put of scheduled() itself raised in between).
C6_FailureIsolation ==
    \A t \in failed :
        /\ HasResult(t)
        /\ ResultOf(t).error
        /\ (pc = "done" /\ "wmput" \notin faults) =>
              \A u \in LaterTables(t) :
                  /\ \E k \in 1..Len(started) : started[k] = u
                  /\ HasResult(u)

\* The endpoints pipeline failed and the run still called the other three.
C6_Witness ==
    /\ pc = "done"
    /\ "endpoints" \in failed
    /\ Len(results) = 4
    /\ results[1].error
    /\ ~results[4].error

C8_SequentialFixedOrder ==
    /\ Len(started) <= 6
    /\ started = SubSeq(<<"endpoints", "instances", "usage", "bundles",
                          "backfill", "refresh">>, 1, Len(started))
    /\ \/ inProgress = {}
       \/ started # <<>> /\ inProgress = {Last(started)}

\* The usage pipeline is writing, after endpoints and instances returned.
C8_Witness ==
    /\ pc = "write"
    /\ started = <<"endpoints", "instances", "usage">>
    /\ inProgress = {"usage"}
    /\ Len(results) = 2

\* An exception reached the catch block of scheduled().
HandlerReached == faults \cap {"setup", "wmput", "kvput", "sqlend"} # {}

\* C9: the status a run persists is 'failed' exactly when an exception
\* reached the run-level handler, 'partial' exactly when a table SyncResult
\* carries an error, 'success' exactly when the run completed without one,
\* and every failure of the run (pipeline, backfill, refresh) shows in it.
C9_StatusShowsEveryFailure ==
    (pc = "done" /\ ~escaped) =>
        /\ lastResult.status = "failed" <=> HandlerReached
        /\ lastResult.status = "partial" <=>
              (~HandlerReached /\ \E k \in 1..Len(results) : results[k].error)
        /\ lastResult.status = "success" <=>
              (~HandlerReached /\ \A k \in 1..Len(results) : ~results[k].error)
        /\ (failed # {} \/ faults # {}) => lastResult.status \in {"partial", "failed"}

\* C10: no exception leaves scheduled(), and a failure outside the table
\* pipelines is persisted as a result with status 'failed'.
C10_NoExceptionEscapes ==
    /\ ~escaped
    /\ (pc = "done" /\ faults # {}) => lastResult.status = "failed"

\* ------------------------------------------------------- tenant resolution
\* Strings are TLA+ strings, read character by character.
Ch(s, k) == SubSeq(s, k, k)

LowerCaseLetters == "abcdefghijklmnopqrstuvwxyz"
UpperCaseLetters == "ABCDEFGHIJKLMNOPQRSTUVWXYZ"

\* The characters String.prototype.trim() strips.
WhiteSpace == {" ", "\t", "\n"}

ToLower == [c \in {Ch(UpperCaseLetters, j) : j \in 1..26} |->
               Ch(LowerCaseLetters,
                  CHOOSE j \in 1..26 : Ch(UpperCaseLetters, j) = c)]

ToUpper == [c \in {Ch(LowerCaseLetters, j) : j \in 1..26} |->
               Ch(UpperCaseLetters,
                  CHOOSE j \in 1..26 : Ch(LowerCaseLetters, j) = c)]

\* The string s with every character replaced by its image under f.
RECURSIVE MapChars(_, _)
MapChars(f, s) ==
    IF s = "" THEN ""
    ELSE (IF Head(s) \in DOMAIN f THEN f[Head(s)] ELSE Head(s))
             \o MapChars(f, Tail(s))

toLowerCase(s) == MapChars(ToLower, s)
toUpperCase(s) == MapChars(ToUpper, s)

RECURSIVE trimStart(_)
trimStart(s) ==
    IF s # "" /\ Head(s) \in WhiteSpace THEN trimStart(Tail(s)) ELSE s

RECURSIVE trimEnd(_)
trimEnd(s) ==
    IF s # "" /\ Ch(s, Len(s)) \in WhiteSpace
    THEN trimEnd(SubSeq(s, 1, Len(s) - 1))
    ELSE s

trim(s) == trimEnd(trimStart(s))

\* The values of the language that tenant resolution handles.
JsNull == [type |-> "null"]
Undefined == [type |-> "undefined"]
Str(s) == [type |-> "string", s |-> s]

\* if (v): null, undefined and the empty string are falsy.
Truthy(v) ==
    /\ v # JsNull
    /\ v # Undefined
    /\ v # Str("")

\* The alias table of src/src/sanitise.ts, the module the pipelines import.
TENANT_NAME_MAP ==
    "allsee technologies limited" :> "allsee"
 @@ "allsee technologies" :> "allsee"
 @@ "allsee" :> "allsee"
 @@ "cellular-lan" :> "cellular-lan"
 @@ "cellularlan" :> "cellular-lan"
 @@ "cellular lan" :> "cellular-lan"
 @@ "simsy_application" :> "simsy-app"
 @@ "simsy application" :> "simsy-app"
 @@ "s-imsy" :> "simsy-app"
 @@ "simsy" :> "simsy-app"
 @@ "travel-simsy" :> "travel-simsy"
 @@ "travel simsy" :> "travel-simsy"
 @@ "travelsimsy" :> "travel-simsy"
 @@ "trvllr" :> "trvllr"
 @@ "dave (testing)" :> "simsy-app"
 @@ "dave testing" :> "simsy-app"

canonical == {"allsee", "cellular-lan", "simsy-app", "travel-simsy", "trvllr"}

\* The alias table of the second copy of the module (src/unnamed/part_000),
\* in which "s-imsy" is a tenant of its own.
TENANT_NAME_MAP_MASTER ==
    "s-imsy" :> "s-imsy"
 @@ "allsee technologies limited" :> "allsee"
 @@ "allsee technologies" :> "allsee"
 @@ "allsee" :> "allsee"
 @@ "cellular-lan" :> "cellular-lan"
 @@ "cellularlan" :> "cellular-lan"
 @@ "cellular lan" :> "cellular-lan"
 @@ "simsy_application" :> "simsy-app"
 @@ "simsy application" :> "simsy-app"
 @@ "simsy" :> "simsy-app"
 @@ "travel-simsy" :> "travel-simsy"
 @@ "travel simsy" :> "travel-simsy"
 @@ "travelsimsy" :> "travel-simsy"
 @@ "trvllr" :> "trvllr"
 @@ "dave (testing)" :> "s-imsy"
 @@ "dave testing" :> "s-imsy"

canonical_MASTER ==
    {"s-imsy", "allsee", "cellular-lan", "simsy-app", "travel-simsy", "trvllr"}

\* The alias table is an object literal: a name it does not define is
\* looked up in Object.prototype.
ObjectPrototype ==
    {"constructor", "__proto__", "toString", "toLocaleString", "valueOf",
     "hasOwnProperty", "isPrototypeOf", "propertyIsEnumerable",
     "__defineGetter__", "__defineSetter__", "__lookupGetter__",
     "__lookupSetter__"}

\* map[key] of the language.
Get(map, key) ==
    IF key \in DOMAIN map THEN Str(map[key])
    ELSE IF key \in ObjectPrototype THEN [type |-> "object", inherited |-> key]
    ELSE Undefined

\* normalised without the trim().
normalisedNoTrim(s) == toLowerCase(s)

\* const normalised = s.trim().toLowerCase()
normalised(s) == toLowerCase(trim(s))

\* resolveTenantId over the alias table map and the list canon.
Resolve(map, canon, tenantName, tenantId) ==
    IF Truthy(tenantName) /\ Truthy(Get(map, normalised(tenantName.s)))
    THEN Get(map, normalised(tenantName.s))
    ELSE IF Truthy(tenantId)
    THEN IF Truthy(Get(map, normalised(tenantId.s)))
         THEN Get(map, normalised(tenantId.s))
         ELSE IF normalised(tenantId.s) \in canon
         THEN Str(normalised(tenantId.s))
         ELSE JsNull
    ELSE JsNull

resolveTenantId(tenantName, tenantId) ==
    Resolve(TENANT_NAME_MAP, canonical, tenantName, tenantId)

resolveTenantId_MASTER(tenantName, tenantId) ==
    Resolve(TENANT_NAME_MAP_MASTER, canonical_MASTER, tenantName, tenantId)

\* The two copies of the module.
Copies == {"sanitise.ts", "part_000"}

resolveTenantIdOf(copy, tenantName, tenantId) ==
    IF copy = "sanitise.ts" THEN resolveTenantId(tenantName, tenantId)
    ELSE resolveTenantId_MASTER(tenantName, tenantId)

\* The tenant ids either copy calls canonical.
CanonicalIds == canonical \cup canonical_MASTER

\* Names as the source spells them out: the aliases, the canonical ids, names
\* of no tenant and the empty string.
Names ==
    DOMAIN TENANT_NAME_MAP \cup DOMAIN TENANT_NAME_MAP_MASTER
        \cup CanonicalIds
        \cup {"", "acme ltd", "allsee ltd", "constructor", "__proto__"}

Capitalised(s) ==
    IF s = "" THEN "" ELSE toUpperCase(Ch(s, 1)) \o SubSeq(s, 2, Len(s))

Padding == {"", " "}

\* The spellings of a name: other letter case, blanks before and after.
Spellings ==
    [n \in Names |->
        { l \o c \o r : l \in Padding, r \in Padding,
                        c \in {n, toUpperCase(n), Capitalised(n)} }]

Strings == UNION { Spellings[n] : n \in Names }

\* The strings that differ from s by letter case and outer blanks only.
Alike(s) == UNION { Spellings[n] : n \in { m \in Names : s \in Spellings[m] } }

\* A few values for the argument that is not varied.
FewArgs == {JsNull, Undefined, Str("simsy"), Str("acme ltd"), Str(" Allsee ")}

ManyArgs == { Str(s) : s \in Strings } \cup {JsNull, Undefined}

ResolveInit ==
    /\ src = [t \in Tables |-> <<>>]
    /\ batchSize = 1
    /\ Idle
    /\ \E copy \in Copies :
       \E args \in (ManyArgs \X FewArgs) \cup (FewArgs \X ManyArgs) :
           probe = [fn |-> "resolveTenantId", copy |-> copy,
                    tenantName |-> args[1], tenantId |-> args[2],
                    returned |-> FALSE, value |-> Undefined]

\* The call returns.
ResolveCall ==
    /\ probe.fn = "resolveTenantId"
    /\ ~probe.returned
    /\ probe' = [probe EXCEPT
                    !.returned = TRUE,
                    !.value = resolveTenantIdOf(probe.copy, probe.tenantName,
                                                probe.tenantId)]
    /\ UNCHANGED worker

ResolveNext == ResolveCall

ResolveSpec == ResolveInit /\ [][ResolveNext]_vars

\* C11: resolveTenantId returns one of the canonical tenant ids or null for
\* every pair of arguments, strings that are no alias included.
C11_ReturnsCanonicalOrNull ==
    (probe.fn = "resolveTenantId" /\ probe.returned) =>
        \/ probe.value = JsNull
        \/ probe.value \in { Str(c) : c \in CanonicalIds }

\* C12: resolveTenantId gives the same result for an argument and for every
\* string that differs from it only by letter case and by leading or
\* trailing whitespace, in the tenantName and in the tenantId position.
C12_CaseAndWhitespaceInsensitive ==
    (probe.fn = "resolveTenantId" /\ probe.returned) =>
        /\ probe.tenantName.type = "string" =>
              \A s \in Alike(probe.tenantName.s) :
                  resolveTenantIdOf(probe.copy, Str(s), probe.tenantId)
                      = probe.value
        /\ probe.tenantId.type = "string" =>
              \A s \in Alike(probe.tenantId.s) :
                  resolveTenantIdOf(probe.copy, probe.tenantName, Str(s))
                      = probe.value

C12_Witness ==
    /\ probe.fn = "resolveTenantId"
    /\ probe.returned
    /\ probe.tenantName = Str("ALLSEE TECHNOLOGIES LIMITED ")
    /\ probe.tenantId = JsNull
    /\ "allsee technologies limited" \in Alike(probe.tenantName.s)
    /\ probe.value = Str("allsee")

\* The alias table and the canonical ids of a copy of the module.
AliasTableOf(copy) ==
    IF copy = "sanitise.ts" THEN TENANT_NAME_MAP ELSE TENANT_NAME_MAP_MASTER

CanonicalOf(copy) ==
    IF copy = "sanitise.ts" THEN canonical ELSE canonical_MASTER

\* The argument v has an entry in the alias table of the copy.
HasAlias(copy, v) ==
    v.type = "string" /\ normalised(v.s) \in DOMAIN AliasTableOf(copy)

\* The cascade: the alias of the name, else the alias of the id, else the id
\* when it is canonical, else null.
Cascade(copy, tenantName, tenantId) ==
    IF HasAlias(copy, tenantName)
    THEN Str(AliasTableOf(copy)[normalised(tenantName.s)])
    ELSE IF HasAlias(copy, tenantId)
    THEN Str(AliasTableOf(copy)[normalised(tenantId.s)])
    ELSE IF tenantId.type = "string" /\ normalised(tenantId.s) \in CanonicalOf(copy)
    THEN Str(normalised(tenantId.s))
    ELSE JsNull

\* C21: resolveTenantId returns the alias-table entry of the normalised
\* tenantName when there is one, otherwise that of the normalised tenantId,
\* otherwise the normalised tenantId when it is a canonical id, otherwise
\* null.
C21_TenantCascade ==
    (probe.fn = "resolveTenantId" /\ probe.returned) =>
        probe.value = Cascade(probe.copy, probe.tenantName, probe.tenantId)

\* ------------------------------------------------------------ ICCID index
\* Largest number of rows of the endpoints source read for the ICCID index.
MaxLookup == 2

\* Length of the ICCID prefix that prefixMap is keyed on.
PrefixLength == 12

\* A Map of the language: its entries in insertion order.
EmptyMap == <<>>

MapHas(map, k) == \E j \in 1..Len(map) : map[j].key = k

MapGet(map, k) ==
    IF MapHas(map, k)
    THEN map[CHOOSE j \in 1..Len(map) : map[j].key = k].value
    ELSE Undefined

\* map.set(k, v): a key already present keeps its place.
MapSet(map, k, v) ==
    IF MapHas(map, k)
    THEN [j \in 1..Len(map) |->
             IF map[j].key = k THEN [key |-> k, value |-> v] ELSE map[j]]
    ELSE Append(map, [key |-> k, value |-> v])

\* v || null
OrNull(v) == IF Truthy(v) THEN v ELSE JsNull

\* s.substring(0, n)
substring(s, n) == SubSeq(s, 1, Min(n, Len(s)))

\* 1. the endpoints rows: every row with a resolvable tenant sets its ICCID.
RECURSIVE AddEndpoints(_, _)
AddEndpoints(map, endpoints) ==
    IF endpoints = <<>> THEN map
    ELSE LET ep == Head(endpoints)
             tenantId == resolveTenantId(JsNull, ep.tenant_id)
             next ==
                 IF ~Truthy(ep.iccid) \/ ~Truthy(ep.tenant_id) THEN map
                 ELSE IF Truthy(tenantId) /\ trim(ep.iccid.s) # ""
                 THEN MapSet(map, trim(ep.iccid.s), tenantId)
                 ELSE map
         IN  AddEndpoints(next, Tail(endpoints))

\* FillGaps without the map.has() test: a later row overwrites.
RECURSIVE FillGapsOverwriting(_, _)
FillGapsOverwriting(map, rows) ==
    IF rows = <<>> THEN map
    ELSE LET row == Head(rows)
             tenantId == resolveTenantId(row.tenant_name, row.tenant_id)
             next ==
                 IF ~Truthy(row.iccid) THEN map
                 ELSE IF Truthy(tenantId)
                 THEN MapSet(map, trim(row.iccid.s), tenantId)
                 ELSE map
         IN  FillGapsOverwriting(next, Tail(rows))

\* 2. and 3. the rows of bundle_instances_report and of active_bundles fill
\* the ICCIDs the map does not have; active_bundles rows carry no tenant_id.
RECURSIVE FillGaps(_, _)
FillGaps(map, rows) ==
    IF rows = <<>> THEN map
    ELSE LET row == Head(rows)
             tenantId == resolveTenantId(row.tenant_name, row.tenant_id)
             next ==
                 IF ~Truthy(row.iccid) THEN map
                 ELSE IF MapHas(map, trim(row.iccid.s)) THEN map
                 ELSE IF Truthy(tenantId)
                 THEN MapSet(map, trim(row.iccid.s), tenantId)
                 ELSE map
         IN  FillGaps(next, Tail(rows))

\* The rows a fallback source contributes: none when its fetch failed, the
\* failure being caught.
RowsOf(source) == IF source.failed THEN <<>> ELSE source.rows

\* A fetch that failed.
FetchFailed == [failed |-> TRUE, rows |-> <<>>]

ExactMap(endpoints, instances, bundles) ==
    FillGaps(FillGaps(AddEndpoints(EmptyMap, endpoints), RowsOf(instances)),
             RowsOf(bundles))

\* 4. per prefix, the number of ICCIDs of each tenant.
RECURSIVE CountPrefixes(_, _)
CountPrefixes(counts, map) ==
    IF map = <<>> THEN counts
    ELSE LET prefix == substring(Head(map).key, PrefixLength)
             tenant == Head(map).value
             tenantCounts == IF MapHas(counts, prefix)
                             THEN MapGet(counts, prefix) ELSE EmptyMap
             count == IF MapHas(tenantCounts, tenant)
                      THEN MapGet(tenantCounts, tenant) ELSE 0
         IN  CountPrefixes(
                 MapSet(counts, prefix, MapSet(tenantCounts, tenant, count + 1)),
                 Tail(map))

\* Dominant with >= for >: the last one among equals.
RECURSIVE DominantLast(_, _, _)
DominantLast(tenantCounts, maxCount, dominantTenant) ==
    IF tenantCounts = <<>> THEN dominantTenant
    ELSE IF Head(tenantCounts).value >= maxCount
    THEN DominantLast(Tail(tenantCounts), Head(tenantCounts).value,
                      Head(tenantCounts).key)
    ELSE DominantLast(Tail(tenantCounts), maxCount, dominantTenant)

\* The tenant with the largest count, the first one among equals.
RECURSIVE Dominant(_, _, _)
Dominant(tenantCounts, maxCount, dominantTenant) ==
    IF tenantCounts = <<>> THEN dominantTenant
    ELSE IF Head(tenantCounts).value > maxCount
    THEN Dominant(Tail(tenantCounts), Head(tenantCounts).value,
                  Head(tenantCounts).key)
    ELSE Dominant(Tail(tenantCounts), maxCount, dominantTenant)

RECURSIVE PickDominant(_, _)
PickDominant(prefixTenantMap, counts) ==
    IF counts = <<>> THEN prefixTenantMap
    ELSE LET dominantTenant == Dominant(Head(counts).value, 0, Str(""))
         IN  PickDominant(
                 IF Truthy(dominantTenant)
                 THEN MapSet(prefixTenantMap, Head(counts).key, dominantTenant)
                 ELSE prefixTenantMap,
                 Tail(counts))

PrefixMap(exactMap) == PickDominant(EmptyMap, CountPrefixes(EmptyMap, exactMap))

\* buildIccidTenantMap
buildIccidTenantMap(endpoints, instances, bundles) ==
    LET map == ExactMap(endpoints, instances, bundles)
    IN  [exactMap |-> map, prefixMap |-> PrefixMap(map)]

\* UsageTenant looking the ICCID up as it stands, without the trim().
UsageTenantNoTrim(r, iccidTenantMap, iccidPrefixMap) ==
    LET byName == resolveTenantId(r.tenant_name, JsNull)
    IN  IF Truthy(byName) THEN byName
        ELSE IF Truthy(r.iccid)
        THEN LET byIccid == OrNull(MapGet(iccidTenantMap, r.iccid.s))
             IN  IF Truthy(byIccid) THEN byIccid
                 ELSE OrNull(MapGet(iccidPrefixMap,
                                    substring(r.iccid.s, PrefixLength)))
        ELSE JsNull

\* The tenant syncUsage gives a usage record (null: the record is skipped).
UsageTenant(r, iccidTenantMap, iccidPrefixMap) ==
    LET byName == resolveTenantId(r.tenant_name, JsNull)
    IN  IF Truthy(byName) THEN byName
        ELSE IF Truthy(r.iccid)
        THEN LET normalisedIccid == trim(r.iccid.s)
                 byIccid == OrNull(MapGet(iccidTenantMap, normalisedIccid))
             IN  IF Truthy(byIccid) THEN byIccid
                 ELSE OrNull(MapGet(iccidPrefixMap,
                                    substring(normalisedIccid, PrefixLength)))
        ELSE JsNull

\* Up to n rows drawn from the set rows, in any order.
RowsUpTo(rows, n) == UNION { [1..len -> rows] : len \in 0..n }

\* What the fetch of a fallback source gives: up to n rows, or a failure.
FetchesUpTo(rows, n) ==
    { [failed |-> FALSE, rows |-> f] : f \in RowsUpTo(rows, n) }
        \cup {FetchFailed}

\* Rows of the endpoints source as the index reads them.
EndpointLookupRows ==
    [iccid : {Str("89440000001"), Str("8944000000121 "), Str("8944000000122")},
     tenant_id : {Str("simsy"), Str("ALLSEE"), Str("acme")}]

\* Rows of bundle_instances_report as the index reads them.
InstanceLookupRows ==
    [iccid : {Str("89440000001 "), Str("8931000000001")},
     tenant_name : {Str("Travel SIMSY")},
     tenant_id : {JsNull, Str("trvllr")}]

\* Rows of active_bundles as the index reads them.
BundleLookupRows ==
    [iccid : {Str("8931000000001"), Str("8944000000122"), Str("8944000000123")},
     tenant_name : {Str("Cellular Lan"), Str("Allsee")},
     tenant_id : {JsNull}]

\* Usage records: with or without a tenant name, with an ICCID that is in
\* the index but for a trailing blank, one that shares a prefix only, one
\* that shares nothing, or none.
UsageLookupRecords ==
    [tenant_name : {JsNull, Str("Trvllr ")},
     iccid : {JsNull, Str("89440000001 "), Str("8944000000129"),
              Str("8931000000001")}]

IccidInit ==
    /\ src = [t \in Tables |-> <<>>]
    /\ batchSize = 1
    /\ Idle
    /\ \E endpoints \in RowsUpTo(EndpointLookupRows, MaxLookup) :
       \E instances \in FetchesUpTo(InstanceLookupRows, 1) :
       \E bundles \in FetchesUpTo(BundleLookupRows, 1) :
       \E r \in UsageLookupRecords :
           probe = [fn |-> "usageTenant", endpoints |-> endpoints,
                    instances |-> instances, bundles |-> bundles, r |-> r,
                    at |-> "build", exactMap |-> EmptyMap,
                    prefixMap |-> EmptyMap, tenantId |-> Undefined]

\* syncUsage builds the index.
BuildIndex ==
    /\ probe.fn = "usageTenant"
    /\ probe.at = "build"
    /\ LET index == buildIccidTenantMap(probe.endpoints, probe.instances,
                                        probe.bundles)
       IN  probe' = [probe EXCEPT !.at = "map",
                                  !.exactMap = index.exactMap,
                                  !.prefixMap = index.prefixMap]
    /\ UNCHANGED worker

\* syncUsage resolves the tenant of the record.
MapUsageRecord ==
    /\ probe.fn = "usageTenant"
    /\ probe.at = "map"
    /\ probe' = [probe EXCEPT
                    !.at = "done",
                    !.tenantId = UsageTenant(probe.r, probe.exactMap,
                                             probe.prefixMap)]
    /\ UNCHANGED worker

IccidNext ==
    \/ BuildIndex
    \/ MapUsageRecord

IccidSpec == IccidInit /\ [][IccidNext]_vars

\* The values the entries of map with key k hold.
ValuesAt(map, k) == { map[j].value : j \in { n \in 1..Len(map) : map[n].key = k } }

\* The tenants the endpoints rows under examination give for the ICCID k.
EndpointTenants(k) ==
    { resolveTenantId(JsNull, probe.endpoints[j].tenant_id) :
        j \in { n \in 1..Len(probe.endpoints) :
                  probe.endpoints[n].iccid = Str(k) } } \ {JsNull}

\* C14: a usage record gets the tenant of its tenant_name alias if there is
\* one, else the exactMap entry of its trimmed ICCID if there is one, else
\* the prefixMap entry of the first 12 characters if there is one, and is
\* dropped only if all three fail; a record with no tenant_name and iccid
\* "89440000001 " gets the tenant the endpoints rows give "89440000001".
C14_UsageTenantPrecedence ==
    (probe.fn = "usageTenant" /\ probe.at = "done") =>
        LET r == probe.r
            byName == resolveTenantId(r.tenant_name, JsNull)
            hasIccid == r.iccid.type = "string" /\ r.iccid.s # ""
            exact == IF hasIccid
                     THEN ValuesAt(probe.exactMap, trim(r.iccid.s)) ELSE {}
            byPrefix == IF hasIccid
                        THEN ValuesAt(probe.prefixMap,
                                      substring(trim(r.iccid.s), PrefixLength))
                        ELSE {}
        IN  /\ byName # JsNull => probe.tenantId = byName
            /\ (byName = JsNull /\ exact # {}) => probe.tenantId \in exact
            /\ (byName = JsNull /\ exact = {} /\ byPrefix # {}) =>
                   probe.tenantId \in byPrefix
            /\ probe.tenantId = JsNull <=>
                   (byName = JsNull /\ exact = {} /\ byPrefix = {})
            /\ (r.tenant_name = JsNull /\ r.iccid = Str("89440000001 ")
                    /\ EndpointTenants("89440000001") # {}) =>
                   probe.tenantId \in EndpointTenants("89440000001")

C14_Witness ==
    /\ probe.fn = "usageTenant"
    /\ probe.at = "done"
    /\ probe.r = [tenant_name |-> JsNull, iccid |-> Str("89440000001 ")]
    /\ Len(probe.endpoints) = 1
    /\ probe.endpoints[1] = [iccid |-> Str("89440000001"), tenant_id |-> Str("simsy")]
    /\ probe.tenantId = Str("simsy-app")

\* The index has been built.
IndexBuilt == probe.fn = "usageTenant" /\ probe.at \in {"map", "done"}

\* The endpoints rows that give the ICCID k a tenant, in fetch order.
EndpointRowsFor(k) ==
    SelectSeq(probe.endpoints,
              LAMBDA ep : /\ Truthy(ep.iccid)
                          /\ Truthy(ep.tenant_id)
                          /\ trim(ep.iccid.s) = k
                          /\ Truthy(resolveTenantId(JsNull, ep.tenant_id)))

\* The rows of a later source that give the ICCID k a tenant, in fetch order.
RowsFor(source, k) ==
    SelectSeq(RowsOf(source),
              LAMBDA row : /\ Truthy(row.iccid)
                           /\ trim(row.iccid.s) = k
                           /\ Truthy(resolveTenantId(row.tenant_name,
                                                     row.tenant_id)))

\* The tenants the rows give.
TenantsOfEndpoints(rows) ==
    { resolveTenantId(JsNull, rows[j].tenant_id) : j \in 1..Len(rows) }

TenantsOfRows(rows) ==
    { resolveTenantId(rows[j].tenant_name, rows[j].tenant_id) :
        j \in 1..Len(rows) }

\* The ICCIDs some source gives a tenant.
KnownIccids ==
    { k \in { trim(row.iccid.s) :
                row \in { probe.endpoints[j] : j \in 1..Len(probe.endpoints) }
                    \cup { RowsOf(probe.instances)[j] :
                             j \in 1..Len(RowsOf(probe.instances)) }
                    \cup { RowsOf(probe.bundles)[j] :
                             j \in 1..Len(RowsOf(probe.bundles)) } } :
        \/ EndpointRowsFor(k) # <<>>
        \/ RowsFor(probe.instances, k) # <<>>
        \/ RowsFor(probe.bundles, k) # <<>> }

\* C22: in exactMap an ICCID has the tenant of the first of the sources
\* endpoints, bundle instances, active bundles that gives it one; the rows
\* of a later source fill only the ICCIDs the earlier sources left out.
C22_SourcePriority ==
    IndexBuilt =>
        /\ { probe.exactMap[j].key : j \in 1..Len(probe.exactMap) } = KnownIccids
        /\ \A k \in KnownIccids :
              LET value == MapGet(probe.exactMap, k)
              IN  IF EndpointRowsFor(k) # <<>>
                  THEN value \in TenantsOfEndpoints(EndpointRowsFor(k))
                  ELSE IF RowsFor(probe.instances, k) # <<>>
                  THEN value \in TenantsOfRows(RowsFor(probe.instances, k))
                  ELSE value \in TenantsOfRows(RowsFor(probe.bundles, k))

C22_Witness ==
    /\ IndexBuilt
    /\ EndpointRowsFor("89440000001") # <<>>
    /\ RowsFor(probe.instances, "89440000001") # <<>>
    /\ MapGet(probe.exactMap, "89440000001") = Str("simsy-app")
    /\ EndpointRowsFor("8944000000122") # <<>>
    /\ RowsFor(probe.bundles, "8944000000122") # <<>>
    /\ MapGet(probe.exactMap, "8944000000122") = Str("allsee")

\* C23: when several endpoints rows give the same trimmed ICCID a tenant,
\* exactMap has the tenant of the first of them in fetch order.
C23_FirstEndpointRowWins ==
    IndexBuilt =>
        \A k \in KnownIccids :
            EndpointRowsFor(k) # <<>> =>
                MapGet(probe.exactMap, k)
                    = resolveTenantId(JsNull, Head(EndpointRowsFor(k)).tenant_id)

\* The places in exactMap of the ICCIDs with prefix p and tenant t.
PlacesOf(p, t) ==
    { j \in 1..Len(probe.exactMap) :
        /\ substring(probe.exactMap[j].key, PrefixLength) = p
        /\ probe.exactMap[j].value = t }

\* The first of a non-empty set of places.
First(places) == CHOOSE j \in places : \A k \in places : j <= k

\* C24: prefixMap has an entry for each 12-character prefix of an ICCID of
\* exactMap and for no other; its tenant has the largest number of ICCIDs
\* with that prefix, and comes first in exactMap among the tenants with that
\* number; a second build from the same fetched rows gives the same prefixMap.
C24_PrefixMajority ==
    IndexBuilt =>
        LET tenants == { probe.exactMap[j].value : j \in 1..Len(probe.exactMap) }
            prefixes == { substring(probe.exactMap[j].key, PrefixLength) :
                            j \in 1..Len(probe.exactMap) }
        IN  /\ { probe.prefixMap[j].key : j \in 1..Len(probe.prefixMap) } = prefixes
            /\ \A j, k \in 1..Len(probe.prefixMap) :
                  probe.prefixMap[j].key = probe.prefixMap[k].key => j = k
            /\ \A p \in prefixes :
                  LET winner == MapGet(probe.prefixMap, p)
                  IN  /\ PlacesOf(p, winner) # {}
                      /\ \A t \in tenants :
                            Cardinality(PlacesOf(p, t))
                                <= Cardinality(PlacesOf(p, winner))
                      /\ \A t \in tenants :
                            Cardinality(PlacesOf(p, t))
                                = Cardinality(PlacesOf(p, winner))
                            => First(PlacesOf(p, winner)) <= First(PlacesOf(p, t))
            /\ buildIccidTenantMap(probe.endpoints, probe.instances,
                                   probe.bundles).prefixMap = probe.prefixMap

C24_Witness ==
    /\ IndexBuilt
    /\ Len(probe.exactMap) = 3
    /\ PlacesOf("894400000012", Str("simsy-app")) = {1}
    /\ PlacesOf("894400000012", Str("allsee")) = {2, 3}
    /\ MapGet(probe.prefixMap, "894400000012") = Str("allsee")

\* ---------------------------------------------- the pipelines on the rows
\* Largest number of source records in the window one pipeline call fetches.
MaxWindow == 2

\* NULL of the database.
SqlNull == [type |-> "NULL"]

\* String(v) of a value that is no string.
StringOf(v) ==
    IF v.type = "object" /\ v.inherited = "__proto__" THEN "[object Object]"
    ELSE "function Object() { [native code] }"

\* esc(): the value a column gets from a value of the language.
esc(v) ==
    IF v = JsNull \/ v = Undefined THEN SqlNull
    ELSE IF v.type = "string" THEN v
    ELSE Str(StringOf(v))

\* The registry of tenants after setup (index.ts) and the initial data of the
\* schema.
rpt_tenants ==
    {"s-imsy", "allsee", "cellular-lan", "simsy-app", "travel-simsy", "trvllr",
     "eclipse"}

\* The columns of the source each pipeline asks for.
SELECT_COLUMNS(t) ==
    CASE t = "endpoints" ->
           {"id", "endpoint_identifier", "endpoint_name", "endpoint_type",
            "endpoint_type_name", "status", "endpoint_status_name",
            "endpoint_network_status_name", "tenant_id", "customer_id",
            "usage_rolling_24h", "usage_rolling_7d", "usage_rolling_28d",
            "usage_rolling_1y", "charge_rolling_24h", "charge_rolling_7d",
            "charge_rolling_28d", "charge_rolling_1y", "first_activity",
            "latest_activity", "created_at", "updated_at"}
      [] t = "instances" ->
           {"id", "created_at", "tenant_id", "tenant_name", "customer_id",
            "customer_name", "endpoint_name", "iccid", "bundle_name",
            "bundle_moniker", "bundle_instance_id", "start_time", "end_time",
            "status_name", "status_moniker", "sequence", "sequence_max"}
      [] t = "usage" ->
           {"id", "created_at", "tenant_name", "customer_name",
            "endpoint_name", "endpoint_description", "iccid", "timestamp",
            "service_type", "charge_type", "consumption",
            "charged_consumption", "uplink_bytes", "downlink_bytes",
            "bundle_name", "bundle_moniker", "status_moniker",
            "rat_type_moniker", "serving_operator_name",
            "serving_operator_tadig", "buy_rating_charge",
            "buy_rating_currency", "sell_rating_charge",
            "sell_rating_currency"}
      [] OTHER ->
           {"id", "bundle_id", "bundle_name", "bundle_moniker", "status_name",
            "status_moniker", "tenant_name", "start_time", "end_time",
            "collected_at"}

\* The columns of the target each pipeline's INSERT names.
InsertColumns(t) ==
    CASE t = "endpoints" ->
           {"source_id", "tenant_id", "customer_id", "endpoint_name",
            "endpoint_type", "endpoint_type_name", "status",
            "endpoint_status_name", "network_status_name",
            "usage_rolling_24h", "usage_rolling_7d", "usage_rolling_28d",
            "usage_rolling_1y", "charge_rolling_24h", "charge_rolling_7d",
            "charge_rolling_28d", "charge_rolling_1y", "first_activity",
            "latest_activity", "synced_at"}
      [] t = "instances" ->
           {"source_id", "tenant_id", "customer_name", "endpoint_name",
            "iccid", "bundle_name", "bundle_moniker", "bundle_instance_id",
            "start_time", "end_time", "status_name", "status_moniker",
            "sequence", "sequence_max", "synced_at"}
      [] t = "usage" ->
           {"source_id", "tenant_id", "customer_name", "endpoint_name",
            "endpoint_description", "iccid", "timestamp", "usage_date",
            "service_type", "charge_type", "consumption",
            "charged_consumption", "uplink_bytes", "downlink_bytes",
            "bundle_name", "bundle_moniker", "status_moniker",
            "rat_type_moniker", "serving_operator_name",
            "serving_country_name", "serving_country_iso2", "buy_charge",
            "buy_currency", "sell_charge", "sell_currency", "synced_at"}
      [] OTHER ->
           {"source_id", "tenant_id", "bundle_name", "bundle_moniker",
            "description", "price", "currency", "formatted_price",
            "allowance", "allowance_moniker", "bundle_type_name",
            "offer_type_name", "status_name", "effective_from",
            "effective_to", "synced_at"}

\* The columns DO UPDATE SET overwrites on a conflict.
UpdatedColumns(t) ==
    CASE t = "endpoints" ->
           {"endpoint_name", "status", "endpoint_status_name",
            "network_status_name", "usage_rolling_24h", "usage_rolling_7d",
            "usage_rolling_28d", "usage_rolling_1y", "charge_rolling_24h",
            "charge_rolling_7d", "charge_rolling_28d", "charge_rolling_1y",
            "latest_activity", "synced_at"}
      [] t = "instances" ->
           {"status_name", "status_moniker", "end_time", "synced_at"}
      [] t = "usage" ->
           {"tenant_id", "customer_name", "bundle_name", "bundle_moniker",
            "status_moniker", "synced_at"}
      [] OTHER ->
           {"bundle_name", "status_name", "effective_to", "synced_at"}

\* The columns of the unique index ON CONFLICT names.
ConflictColumns(t) ==
    IF t = "endpoints" THEN <<"source_id", "tenant_id">> ELSE <<"source_id">>

\* buildBundleInstanceSourceId
buildBundleInstanceSourceId(bundleInstanceId, iccid, startTime) ==
    (IF Truthy(bundleInstanceId) THEN bundleInstanceId.s ELSE "") \o "|"
        \o (IF Truthy(iccid) THEN iccid.s ELSE "") \o "|"
        \o (IF Truthy(startTime) THEN startTime.s ELSE "")

\* The row each pipeline makes of a record r with tenant tenantId; at stands
\* for NOW().  Of the columns that only copy a field of the record, one that
\* a conflict overwrites and one that it keeps are modelled.
EndpointRow(r, tenantId, at) ==
    [source_id |-> esc(r.endpoint_identifier), tenant_id |-> esc(tenantId),
     customer_id |-> esc(r.customer_id),
     endpoint_name |-> esc(r.endpoint_name), synced_at |-> at]

InstanceRow(r, tenantId, at) ==
    [source_id |-> esc(Str(buildBundleInstanceSourceId(
                               r.bundle_instance_id, r.iccid, r.start_time))),
     tenant_id |-> esc(tenantId), iccid |-> esc(r.iccid),
     bundle_instance_id |-> esc(r.bundle_instance_id),
     start_time |-> esc(r.start_time),
     status_name |-> esc(r.status_name), synced_at |-> at]

UsageRow(r, tenantId, at) ==
    [source_id |-> esc(r.id), tenant_id |-> esc(tenantId),
     iccid |-> esc(OrNull(r.iccid)),
     bundle_name |-> esc(OrNull(r.bundle_name)), synced_at |-> at]

BundleRow(r, tenantId, at) ==
    [source_id |-> esc(r.bundle_id), tenant_id |-> esc(tenantId),
     bundle_name |-> esc(r.bundle_name),
     bundle_moniker |-> esc(r.bundle_moniker), synced_at |-> at]

\* if (!tenantId) continue
Skipped(tenantId) == ~Truthy(tenantId)

RECURSIVE MapEndpoints(_, _)
MapEndpoints(recs, at) ==
    IF recs = <<>> THEN <<>>
    ELSE LET r == Head(recs)
             tenantId == resolveTenantId(JsNull, r.tenant_id)
         IN  (IF Skipped(tenantId) THEN <<>>
              ELSE <<EndpointRow(r, tenantId, at)>>)
                 \o MapEndpoints(Tail(recs), at)

RECURSIVE MapInstances(_, _)
MapInstances(recs, at) ==
    IF recs = <<>> THEN <<>>
    ELSE LET r == Head(recs)
             tenantId == resolveTenantId(r.tenant_name, r.tenant_id)
         IN  (IF Skipped(tenantId) THEN <<>>
              ELSE <<InstanceRow(r, tenantId, at)>>)
                 \o MapInstances(Tail(recs), at)

RECURSIVE MapUsage(_, _, _)
MapUsage(recs, index, at) ==
    IF recs = <<>> THEN <<>>
    ELSE LET r == Head(recs)
             tenantId == UsageTenant(r, index.exactMap, index.prefixMap)
         IN  (IF Skipped(tenantId) THEN <<>>
              ELSE <<UsageRow(r, tenantId, at)>>)
                 \o MapUsage(Tail(recs), index, at)

\* `${r.bundle_id}:${tenantId}`
DedupKey(r, tenantId) == r.bundle_id.s \o ":" \o esc(tenantId).s

RECURSIVE MapBundles(_, _, _)
MapBundles(recs, seen, at) ==
    IF recs = <<>> THEN <<>>
    ELSE LET r == Head(recs)
             tenantId == resolveTenantId(r.tenant_name, JsNull)
         IN  IF Skipped(tenantId) THEN MapBundles(Tail(recs), seen, at)
             ELSE IF DedupKey(r, tenantId) \in seen
             THEN MapBundles(Tail(recs), seen, at)
             ELSE <<BundleRow(r, tenantId, at)>>
                      \o MapBundles(Tail(recs),
                                    seen \cup {DedupKey(r, tenantId)}, at)

\* The rows the pipeline of table t makes of the records it fetched; lookup
\* is what the usage pipeline reads for its ICCID index.
MapTable(t, recs, lookup, at) ==
    CASE t = "endpoints" -> MapEndpoints(recs, at)
      [] t = "instances" -> MapInstances(recs, at)
      [] t = "usage" ->
           MapUsage(recs, buildIccidTenantMap(lookup.endpoints,
                                              lookup.instances,
                                              lookup.bundles), at)
      [] OTHER -> MapBundles(recs, {}, at)

\* The constraints of the schema with no check at all.
ConstraintsOff(row) == TRUE

\* tenant_id TEXT NOT NULL REFERENCES rpt_tenants(tenant_id)
ConstraintsOk(row) ==
    /\ row.tenant_id # SqlNull
    /\ row.tenant_id.s \in rpt_tenants

\* A table without its unique index: no two rows conflict.
ConflictNever(t, a, b) == FALSE

\* The rows a and b fall on the same entry of the unique index of table t
\* (the index leaves out the rows with a NULL source_id).
Conflict(t, a, b) ==
    /\ a.source_id # SqlNull
    /\ \A k \in 1..Len(ConflictColumns(t)) :
           a[ConflictColumns(t)[k]] = b[ConflictColumns(t)[k]]

\* ON CONFLICT ... DO UPDATE with every column taken from the new row.
OnConflictReplace(t, old, new) == new

\* ON CONFLICT ... DO UPDATE SET: the existing row with the listed columns
\* taken from the new one.
OnConflict(t, old, new) ==
    [c \in DOMAIN old |-> IF c \in UpdatedColumns(t) THEN new[c] ELSE old[c]]

\* One row of an INSERT ... ON CONFLICT DO UPDATE applied to the table.
UpsertRow(t, target, row) ==
    IF \E j \in 1..Len(target) : Conflict(t, row, target[j])
    THEN [j \in 1..Len(target) |->
             IF Conflict(t, row, target[j])
             THEN OnConflict(t, target[j], row) ELSE target[j]]
    ELSE Append(target, row)

RECURSIVE UpsertRows(_, _, _)
UpsertRows(t, target, chunk) ==
    IF chunk = <<>> THEN target
    ELSE UpsertRows(t, UpsertRow(t, target, Head(chunk)), Tail(chunk))

\* The statement fails as a whole when a row breaks a constraint or when two
\* of its rows fall on the same index entry ("cannot affect row a second
\* time").
StatementFails(t, chunk) ==
    \/ \E j \in 1..Len(chunk) : ~ConstraintsOk(chunk[j])
    \/ \E j, k \in 1..Len(chunk) : j < k /\ Conflict(t, chunk[j], chunk[k])

\* The insert loop of a pipeline from offset i on.
RECURSIVE InsertLoop(_, _, _, _, _)
InsertLoop(t, target, rows, offset, synced) ==
    IF offset >= Len(rows)
    THEN [target |-> target, recordsSynced |-> synced, error |-> FALSE]
    ELSE LET chunk == SubSeq(rows, offset + 1,
                             Min(offset + BULK_INSERT_SIZE, Len(rows)))
         IN  IF StatementFails(t, chunk)
             THEN [target |-> target, recordsSynced |-> synced, error |-> TRUE]
             ELSE InsertLoop(t, UpsertRows(t, target, chunk), rows,
                             offset + BULK_INSERT_SIZE, synced + Len(chunk))

\* One call of the pipeline of table t on the records recs.
SyncTable(t, recs, lookup, target, at) ==
    InsertLoop(t, target, MapTable(t, recs, lookup, at), 0, 0)

\* Source records of each table: tenants that resolve, tenants that do not,
\* two records with the same key, fields that differ.
EndpointRecords ==
    [endpoint_identifier : {Str("ep1"), Str("ep2")},
     tenant_id : {JsNull, Str("simsy"), Str("Allsee "), Str("acme"),
                  Str("constructor")},
     customer_id : {Str("c1")},
     endpoint_name : {Str("gate"), Str("door")}]

InstanceRecords ==
    [bundle_instance_id : {Str("bi1"), Str("bi2")},
     iccid : {Str("8944000000121")},
     start_time : {Str("2026-01-01")},
     tenant_name : {JsNull, Str("Travel SIMSY")},
     tenant_id : {JsNull, Str("trvllr"), Str("acme")},
     status_name : {Str("Active"), Str("Expired")}]

UsageRecords ==
    [id : {Str("u1"), Str("u2"), Str("u3")},
     tenant_name : {JsNull, Str("Trvllr "), Str("acme")},
     iccid : {JsNull, Str("89440000001 "), Str("8931000000001")},
     bundle_name : {Str("1GB")}]

BundleRecords ==
    [bundle_id : {Str("b1"), Str("b2")},
     tenant_name : {JsNull, Str("Allsee"), Str("simsy"), Str("acme")},
     bundle_name : {Str("1GB"), Str("1 GB")},
     bundle_moniker : {Str("m1")}]

\* id is the primary key of custom_usage_reports.
UniqueIds(recs) ==
    \A j, k \in 1..Len(recs) : j < k => recs[j].id # recs[k].id

Windows(t) ==
    CASE t = "endpoints" -> RowsUpTo(EndpointRecords, MaxWindow)
      [] t = "instances" -> RowsUpTo(InstanceRecords, MaxWindow)
      [] t = "usage" ->
           { w \in RowsUpTo(UsageRecords, MaxWindow) : UniqueIds(w) }
      [] OTHER -> RowsUpTo(BundleRecords, MaxWindow)

NoLookup ==
    [endpoints |-> <<>>, instances |-> [failed |-> FALSE, rows |-> <<>>],
     bundles |-> [failed |-> FALSE, rows |-> <<>>]]

\* What the usage pipeline finds for its ICCID index.
Lookups(t) ==
    IF t = "usage"
    THEN { [NoLookup EXCEPT !.endpoints = e] :
             e \in RowsUpTo([iccid : {Str("89440000001")},
                             tenant_id : {Str("simsy"), Str("acme")}], 1) }
    ELSE {NoLookup}

PipeInit ==
    /\ src = [t \in Tables |-> <<>>]
    /\ batchSize = 1
    /\ Idle
    /\ \E t \in Tables :
       \E recs \in Windows(t) :
       \E lookup \in Lookups(t) :
           probe = [fn |-> "syncTable", table |-> t, records |-> recs,
                    lookup |-> lookup, runs |-> 0, target |-> <<>>,
                    recordsSynced |-> 0, error |-> FALSE, once |-> <<>>]

\* The pipeline runs over the window: the first time, then once more.
RunPipeline ==
    /\ probe.fn = "syncTable"
    /\ probe.runs < 2
    /\ LET result == SyncTable(probe.table, probe.records, probe.lookup,
                               probe.target, probe.runs + 1)
       IN  probe' = [probe EXCEPT
                        !.runs = probe.runs + 1,
                        !.target = result.target,
                        !.recordsSynced = result.recordsSynced,
                        !.error = result.error,
                        !.once = IF probe.runs = 0 THEN result.target
                                 ELSE probe.once]
    /\ UNCHANGED worker

PipeNext == RunPipeline

PipeSpec == PipeInit /\ [][PipeNext]_vars

\* The tenant the pipeline of table t resolves for the record r.
TenantOf(t, r, lookup) ==
    CASE t = "endpoints" -> resolveTenantId(JsNull, r.tenant_id)
      [] t = "instances" -> resolveTenantId(r.tenant_name, r.tenant_id)
      [] t = "usage" ->
           LET index == buildIccidTenantMap(lookup.endpoints, lookup.instances,
                                            lookup.bundles)
           IN  UsageTenant(r, index.exactMap, index.prefixMap)
      [] OTHER -> resolveTenantId(r.tenant_name, JsNull)

\* The source_id the pipeline of table t gives the record r.
SourceIdOf(t, r) ==
    CASE t = "endpoints" -> r.endpoint_identifier
      [] t = "instances" ->
           Str(buildBundleInstanceSourceId(r.bundle_instance_id, r.iccid,
                                           r.start_time))
      [] t = "usage" -> r.id
      [] OTHER -> r.bundle_id

\* The records under examination whose tenant resolves to a canonical id.
Resolvable ==
    { k \in 1..Len(probe.records) :
        TenantOf(probe.table, probe.records[k], probe.lookup)
            \in { Str(c) : c \in CanonicalIds } }

\* C13: in every table pipeline each row written has a tenant_id that is one
\* of the canonical tenant ids, and a record whose tenant does not resolve
\* is neither written nor counted in recordsSynced.
C13_WrittenRowsHaveCanonicalTenant ==
    (probe.fn = "syncTable" /\ probe.runs >= 1) =>
        /\ \A j \in 1..Len(probe.target) :
              /\ probe.target[j].tenant_id \in { Str(c) : c \in CanonicalIds }
              /\ \E k \in Resolvable :
                     SourceIdOf(probe.table, probe.records[k])
                         = probe.target[j].source_id
        /\ probe.recordsSynced <= Cardinality(Resolvable)

C13_Witness ==
    /\ probe.fn = "syncTable"
    /\ probe.runs = 1
    /\ ~probe.error
    /\ Len(probe.records) = 2
    /\ Cardinality(Resolvable) = 1
    /\ Len(probe.target) = 1
    /\ probe.recordsSynced = 1

\* The rows without the column synced_at.
Strip(rows) ==
    [j \in 1..Len(rows) |->
        [c \in DOMAIN rows[j] \ {"synced_at"} |-> rows[j][c]]]

\* C15: a pipeline run twice over the same window leaves the rows and the
\* field values, synced_at excepted, that one run leaves, and no two rows
\* with the same dedup key.
C15_Idempotent ==
    (probe.fn = "syncTable" /\ probe.runs = 2) =>
        /\ Strip(probe.target) = Strip(probe.once)
        /\ \A j, k \in 1..Len(probe.target) :
               j < k => ~Conflict(probe.table, probe.target[j], probe.target[k])

C15_Witness ==
    /\ probe.fn = "syncTable"
    /\ probe.runs = 2
    /\ ~probe.error
    /\ Len(probe.target) = 2
    /\ \A j \in 1..2 : probe.target[j].synced_at = 2
    /\ probe.recordsSynced = 2

\* The fields the pipelines' own comments list as sensitive: identifiers of
\* the SIM and of the device, credentials, addresses, location, raw data.
Sensitive ==
    {"iccid", "endpoint_iccid", "imsi", "msisdn", "imei", "eid", "epid",
     "activation_code", "lpa_string", "ip_address", "endpoint_http_address",
     "endpoint_http_addresses", "latest_lat", "latest_lon", "raw_data",
     "identities", "tags"}

\* C19: in every table the columns selected from the source and the columns
\* written to the target hold no sensitive field.
C19_NoSensitiveColumn ==
    (probe.fn = "syncTable" /\ probe.runs >= 1) =>
        /\ SELECT_COLUMNS(probe.table) \cap Sensitive = {}
        /\ InsertColumns(probe.table) \cap Sensitive = {}
        /\ \A j \in 1..Len(probe.target) :
               DOMAIN probe.target[j] \cap Sensitive = {}

\* The window of the bundle catalog pipeline holds a bundle_id under two
\* tenants.
BundleUnderTwoTenants ==
    /\ probe.fn = "syncTable"
    /\ probe.table = "bundles"
    /\ probe.runs >= 1
    /\ \E j, k \in Resolvable :
          /\ probe.records[j].bundle_id = probe.records[k].bundle_id
          /\ TenantOf("bundles", probe.records[j], probe.lookup)
                 # TenantOf("bundles", probe.records[k], probe.lookup)

\* C27: when the rows fetched from active_bundles hold the same bundle_id under
\* two tenants that resolve, the pipeline returns without error and
\* rpt_bundles has a row of that bundle for each of the two tenants.
C27_OneRowPerBundleAndTenant ==
    BundleUnderTwoTenants =>
        /\ ~probe.error
        /\ \A k \in Resolvable :
              \E j \in 1..Len(probe.target) :
                  /\ probe.target[j].source_id = probe.records[k].bundle_id
                  /\ probe.target[j].tenant_id
                         = TenantOf("bundles", probe.records[k], probe.lookup)

\* The records of the source of table t.
RecordsOf(t) ==
    CASE t = "endpoints" -> EndpointRecords
      [] t = "instances" -> InstanceRecords
      [] t = "usage" -> UsageRecords
      [] OTHER -> BundleRecords

\* A record is synced, changes in the source and is synced again: the
\* window of the first run holds the record first, that of the second run
\* the record second.
UpsertInit ==
    /\ src = [t \in Tables |-> <<>>]
    /\ batchSize = 1
    /\ Idle
    /\ \E t \in Tables :
       \E first \in RecordsOf(t) :
       \E second \in RecordsOf(t) :
       \E lookup \in Lookups(t) :
           probe = [fn |-> "upsert", table |-> t, first |-> first,
                    second |-> second, lookup |-> lookup, runs |-> 0,
                    before |-> <<>>, target |-> <<>>, error |-> FALSE]

SyncFirst ==
    /\ probe.fn = "upsert"
    /\ probe.runs = 0
    /\ LET result == SyncTable(probe.table, <<probe.first>>, probe.lookup,
                               probe.target, 1)
       IN  probe' = [probe EXCEPT !.runs = 1, !.before = result.target,
                                  !.target = result.target,
                                  !.error = result.error]
    /\ UNCHANGED worker

SyncSecond ==
    /\ probe.fn = "upsert"
    /\ probe.runs = 1
    /\ LET result == SyncTable(probe.table, <<probe.second>>, probe.lookup,
                               probe.target, 2)
       IN  probe' = [probe EXCEPT !.runs = 2, !.target = result.target,
                                  !.error = result.error]
    /\ UNCHANGED worker

UpsertNext ==
    \/ SyncFirst
    \/ SyncSecond

UpsertSpec == UpsertInit /\ [][UpsertNext]_vars

\* The row of the second run fell on the row of the first.
Conflicted ==
    /\ probe.fn = "upsert"
    /\ probe.runs = 2
    /\ Len(probe.before) = 1
    /\ Len(probe.target) = 1
    /\ probe.target[1].synced_at = 2

\* The columns in which the existing row was changed.
Overwritten ==
    { c \in DOMAIN probe.before[1] : probe.target[1][c] # probe.before[1][c] }

\* Status fields, rolling metrics, end-of-period markers and synced_at.
MutableFields ==
    {"status", "endpoint_status_name", "network_status_name", "status_name",
     "status_moniker", "usage_rolling_24h", "usage_rolling_7d",
     "usage_rolling_28d", "usage_rolling_1y", "charge_rolling_24h",
     "charge_rolling_7d", "charge_rolling_28d", "charge_rolling_1y",
     "latest_activity", "end_time", "effective_to", "synced_at"}

C20_UsageWatermarkAfterEveryChunk ==
    \A k \in 1..Len(results) :
        (results[k].table = "usage" /\ results[k].error
             /\ results[k].recordsSynced > 0) =>
            /\ kv["usage"] # Null
            /\ kv["usage"] >=
                   MapRecords(fetched["usage"])[results[k].recordsSynced].wm

\* The run in progress reported no record and changed no watermark.
NothingSynced ==
    /\ \A k \in 1..Len(results) : results[k].recordsSynced = 0
    /\ kv = kvAtStart

NoRowAfterPrevNow ==
    \A t \in Tables \ {"usage"} :
        \A k \in 1..Len(src[t]) : src[t][k].wm <= prev.now

MaxInstances == 2
MaxUsage == 2
\* Largest number of backfill passes over the same rows.
MaxPasses == 2

\* NULL in a numeric or date column.
NoInt == -1

\* (1024.0 * 1024.0): charged_consumption is in bytes, data_used_mb in MB.
BytesPerMB == 1024 * 1024

\* TRIM() of the database strips blanks.
RECURSIVE SqlTrim(_)
SqlTrim(s) ==
    IF s = "" THEN s
    ELSE IF Head(s) = " " THEN SqlTrim(Tail(s))
    ELSE IF Ch(s, Len(s)) = " " THEN SqlTrim(SubSeq(s, 1, Len(s) - 1))
    ELSE s

\* ROUND() that cuts the fraction off.
RoundDown(n, d) == n \div d

\* ROUND() of a non-negative numeric n / d: halves go up.
Round(n, d) == (2 * n + d) \div (2 * d)

\* SUM(COALESCE(charged_consumption, 0)) over the rows ks of usage.
RECURSIVE SumConsumption(_, _)
SumConsumption(usage, ks) ==
    IF ks = {} THEN 0
    ELSE LET k == CHOOSE x \in ks : TRUE
         IN  (IF usage[k].charged_consumption = NoInt THEN 0
              ELSE usage[k].charged_consumption)
                 + SumConsumption(usage, ks \ {k})

\* UPDATE rpt_bundle_instances SET iccid = TRIM(iccid) WHERE ...
TrimmedIccids(instances) ==
    [j \in 1..Len(instances) |->
        IF instances[j].iccid # SqlNull
        THEN [instances[j] EXCEPT !.iccid = Str(SqlTrim(@.s))]
        ELSE instances[j]]

\* The pass without the reset statement.
ResetNothing(instances) == instances

\* UPDATE rpt_bundle_instances SET data_used_mb = NULL WHERE ...
ResetTotals(instances) ==
    [j \in 1..Len(instances) |-> [instances[j] EXCEPT !.data_used_mb = NoInt]]

\* Strategy 1: the usage rows grouped with the instance bi, those that pass
\* the WHERE of the subquery and agree with bi on TRIM(iccid),
\* LOWER(bundle_moniker) and sequence; NULL agrees with nothing.
ExactGroup(bi, usage) ==
    { k \in 1..Len(usage) :
        /\ usage[k].iccid # SqlNull
        /\ usage[k].charged_consumption > 0
        /\ usage[k].bundle_moniker # SqlNull
        /\ usage[k].sequence # NoInt
        /\ bi.iccid # SqlNull
        /\ bi.bundle_moniker # SqlNull
        /\ bi.sequence # NoInt
        /\ SqlTrim(bi.iccid.s) = SqlTrim(usage[k].iccid.s)
        /\ toLowerCase(bi.bundle_moniker.s) = toLowerCase(usage[k].bundle_moniker.s)
        /\ bi.sequence = usage[k].sequence }

ExactStrategy(instances, usage) ==
    [j \in 1..Len(instances) |->
        IF ExactGroup(instances[j], usage) # {}
        THEN [instances[j] EXCEPT !.data_used_mb =
                 Round(SumConsumption(usage, ExactGroup(instances[j], usage)),
                       BytesPerMB)]
        ELSE instances[j]]

\* bi2.data_used_mb IS NULL with the test left out.
StillNullOrNot(bi) == TRUE

\* bi2.data_used_mb IS NULL
StillNull(bi) == bi.data_used_mb = NoInt

\* RangeGroup with the last day of the period left out.
RangeGroupBeforeEnd(bi2, usage) ==
    { k \in 1..Len(usage) :
        /\ usage[k].iccid # SqlNull
        /\ usage[k].charged_consumption > 0
        /\ bi2.iccid # SqlNull
        /\ SqlTrim(usage[k].iccid.s) = SqlTrim(bi2.iccid.s)
        /\ bi2.start_time # NoInt
        /\ bi2.end_time # NoInt
        /\ usage[k].usage_date # NoInt
        /\ usage[k].usage_date >= bi2.start_time
        /\ usage[k].usage_date < bi2.end_time }

\* Strategy 2: the usage rows joined to the instance bi2, those of its ICCID
\* dated within its period.
RangeGroup(bi2, usage) ==
    { k \in 1..Len(usage) :
        /\ usage[k].iccid # SqlNull
        /\ usage[k].charged_consumption > 0
        /\ bi2.iccid # SqlNull
        /\ SqlTrim(usage[k].iccid.s) = SqlTrim(bi2.iccid.s)
        /\ bi2.start_time # NoInt
        /\ bi2.end_time # NoInt
        /\ usage[k].usage_date # NoInt
        /\ usage[k].usage_date >= bi2.start_time
        /\ usage[k].usage_date <= bi2.end_time }

DateRangeStrategy(instances, usage) ==
    [j \in 1..Len(instances) |->
        IF StillNull(instances[j]) /\ RangeGroup(instances[j], usage) # {}
        THEN [instances[j] EXCEPT !.data_used_mb =
                 Round(SumConsumption(usage, RangeGroup(instances[j], usage)),
                       BytesPerMB)]
        ELSE instances[j]]

\* Rows of rpt_bundle_instances: the ICCID with a trailing blank, with or
\* without a sequence, with a period that is day 2, one that holds no day or
\* none, with or without a total left by the pass before.
InstanceRows ==
    [iccid : {Str("8944000000121 ")}, bundle_moniker : {Str("Gold")},
     sequence : {NoInt, 1}, start_time : {NoInt, 2, 3}, end_time : {2},
     data_used_mb : {NoInt, 5}]

\* Rows of rpt_usage of day 2 or 3 for that ICCID: with or without a
\* sequence, with no consumption, less than half a MB, half a MB or one MB.
UsageRows ==
    [iccid : {Str("8944000000121")}, bundle_moniker : {Str("GOLD")},
     sequence : {NoInt, 1}, usage_date : {2, 3},
     charged_consumption : {0, 100000, 524288, 1048576}]

BackfillInit ==
    /\ src = [t \in Tables |-> <<>>]
    /\ batchSize = 1
    /\ Idle
    /\ \E instances \in RowsUpTo(InstanceRows, MaxInstances) :
       \E usage \in RowsUpTo(UsageRows, MaxUsage) :
           probe = [fn |-> "backfillBundleUsage", at |-> "trim",
                    instances |-> instances, usage |-> usage,
                    failed |-> FALSE, passes |-> 0, given |-> instances,
                    once |-> <<>>]

\* BackfillStatement as one transaction: a statement that fails puts the
\* rows back as the pass found them.
BackfillStatementRollback(fail) ==
    /\ probe.fn = "backfillBundleUsage"
    /\ probe.at \in {"trim", "reset", "exact", "range"}
    /\ IF fail
       THEN probe' = [probe EXCEPT !.at = "done", !.failed = TRUE,
                                   !.instances = probe.given]
       ELSE probe' =
           CASE probe.at = "trim" ->
                  [probe EXCEPT !.at = "reset",
                                !.instances = TrimmedIccids(@)]
             [] probe.at = "reset" ->
                  [probe EXCEPT !.at = "exact", !.instances = ResetTotals(@)]
             [] probe.at = "exact" ->
                  [probe EXCEPT !.at = "range",
                                !.instances = ExactStrategy(@, probe.usage)]
             [] OTHER ->
                  [probe EXCEPT
                      !.at = "done",
                      !.instances = DateRangeStrategy(@, probe.usage),
                      !.passes = @ + 1,
                      !.once = IF probe.passes = 0
                               THEN DateRangeStrategy(probe.instances,
                                                      probe.usage)
                               ELSE @]
    /\ UNCHANGED worker

\* The next statement of backfillBundleUsage; a statement that fails ends
\* the pass in the catch block.
BackfillStatement(fail) ==
    /\ probe.fn = "backfillBundleUsage"
    /\ probe.at \in {"trim", "reset", "exact", "range"}
    /\ IF fail
       THEN probe' = [probe EXCEPT !.at = "done", !.failed = TRUE]
       ELSE probe' =
           CASE probe.at = "trim" ->
                  [probe EXCEPT !.at = "reset",
                                !.instances = TrimmedIccids(@)]
             [] probe.at = "reset" ->
                  [probe EXCEPT !.at = "exact", !.instances = ResetTotals(@)]
             [] probe.at = "exact" ->
                  [probe EXCEPT !.at = "range",
                                !.instances = ExactStrategy(@, probe.usage)]
             [] OTHER ->
                  [probe EXCEPT
                      !.at = "done",
                      !.instances = DateRangeStrategy(@, probe.usage),
                      !.passes = @ + 1,
                      !.once = IF probe.passes = 0
                               THEN DateRangeStrategy(probe.instances,
                                                      probe.usage)
                               ELSE @]
    /\ UNCHANGED worker

\* The next run calls backfillBundleUsage again, the rows of rpt_usage and
\* of rpt_bundle_instances being those the pass before left.
BackfillAgain ==
    /\ probe.fn = "backfillBundleUsage"
    /\ probe.at = "done"
    /\ ~probe.failed
    /\ probe.passes < MaxPasses
    /\ probe' = [probe EXCEPT !.at = "trim"]
    /\ UNCHANGED worker

BackfillNext ==
    \/ \E fail \in BOOLEAN : BackfillStatement(fail)
    \/ BackfillAgain

BackfillSpec == BackfillInit /\ [][BackfillNext]_vars

\* The date-range statement is the next one.
AtRange == probe.fn = "backfillBundleUsage" /\ probe.at = "range"

\* C17: the date-range strategy leaves every instance that has a total from
\* the exact strategy, a total of 0 included, as it is, and writes only
\* instances whose total is null.
C17_RangeWritesOnlyNullTotals ==
    [][AtRange =>
          \A j \in 1..Len(probe.instances) :
              probe.instances[j].data_used_mb # NoInt =>
                  probe'.instances[j] = probe.instances[j]]_vars

C17_Witness ==
    /\ probe.fn = "backfillBundleUsage"
    /\ probe.at = "done"
    /\ ~probe.failed
    /\ \E j, k \in 1..Len(probe.instances) :
          /\ probe.instances[j].data_used_mb = 0
          /\ SumConsumption(probe.usage,
                            RangeGroup(probe.instances[j], probe.usage))
                 >= BytesPerMB
          /\ ExactGroup(probe.instances[k], probe.usage) = {}
          /\ probe.instances[k].data_used_mb > 0

\* The usage rows that have the ICCID, moniker and sequence of the instance
\* bi, none of them null, whatever their consumption.
SameTriple(bi, usage) ==
    { k \in 1..Len(usage) :
        /\ bi.sequence # NoInt
        /\ usage[k].sequence = bi.sequence
        /\ bi.iccid # SqlNull /\ usage[k].iccid # SqlNull
        /\ bi.bundle_moniker # SqlNull /\ usage[k].bundle_moniker # SqlNull
        /\ SqlTrim(usage[k].iccid.s) = SqlTrim(bi.iccid.s)
        /\ toLowerCase(usage[k].bundle_moniker.s) = toLowerCase(bi.bundle_moniker.s) }

\* m is n / d rounded to the nearest integer, halves up.
IsRounded(m, n, d) == 2 * m * d - d <= 2 * n /\ 2 * n < 2 * m * d + d

\* The exact statement has just run.
AfterExact ==
    /\ probe.fn = "backfillBundleUsage"
    /\ probe.at = "range"
    /\ ~probe.failed

\* C18: after the exact strategy every instance that shares its ICCID,
\* moniker and sequence with a group of usage rows has data_used_mb =
\* round(sum of the group's charged_consumption / 1,048,576), and 2 when the
\* sum is 2,097,152.
C18_ExactValueOfEveryGroup ==
    AfterExact =>
        \A j \in 1..Len(probe.instances) :
            LET group == SameTriple(probe.instances[j], probe.usage)
                sum == SumConsumption(probe.usage, group)
            IN  group # {} =>
                    /\ IsRounded(probe.instances[j].data_used_mb, sum, BytesPerMB)
                    /\ sum = 2097152 => probe.instances[j].data_used_mb = 2

\* C18 (amended): the groups are made of the usage rows with positive
\* charged_consumption only; an instance whose triple no such row shares is
\* left null by the exact strategy.
C18_ExactValueOfPositiveGroups ==
    AfterExact =>
        \A j \in 1..Len(probe.instances) :
            LET group == { k \in SameTriple(probe.instances[j], probe.usage) :
                             probe.usage[k].charged_consumption > 0 }
                sum == SumConsumption(probe.usage, group)
            IN  /\ group # {} =>
                    /\ IsRounded(probe.instances[j].data_used_mb, sum, BytesPerMB)
                    /\ sum = 2097152 => probe.instances[j].data_used_mb = 2
                /\ group = {} => probe.instances[j].data_used_mb = NoInt

C18_Witness ==
    /\ AfterExact
    /\ \E j \in 1..Len(probe.instances) :
          /\ Cardinality(SameTriple(probe.instances[j], probe.usage)) = 2
          /\ SumConsumption(probe.usage,
                            SameTriple(probe.instances[j], probe.usage)) = 2097152
          /\ probe.instances[j].data_used_mb = 2

\* ------------------------------------------------- the runs, chunk failure
\* The write of a chunk of the current pipeline has just failed.
ChunkFailed ==
    /\ pc = "write"
    /\ pc' = "commit"
    /\ Last(results').error

\* C25: when the write of a chunk fails, the pipeline returns at once: the
\* rows of the chunks before it are in the target, no row of the failed or of
\* a later chunk is written, and the SyncResult has the error and counts the
\* rows of the chunks before.
C25_ChunkFailureStopsThePipeline ==
    [][ChunkFailed =>
          /\ Len(results') = Len(results) + 1
          /\ Last(results').table = CurStage
          /\ Last(results').recordsSynced = Len(SubSeq(mapped, 1, i))
          /\ Ids(SubSeq(mapped, 1, i)) \subseteq tgt'[CurStage]
          /\ tgt' = tgt
          /\ mapped' = <<>>]_vars

C25_Witness ==
    /\ pc = "commit"
    /\ CurStage = "endpoints"
    /\ Last(results).error
    /\ Last(results).recordsSynced = 1
    /\ Len(MapRecords(fetched["endpoints"])) = 3
    /\ tgt["endpoints"] = {MapRecords(fetched["endpoints"])[1].id}

\* A pass has run to its end.
PassDone ==
    /\ probe.fn = "backfillBundleUsage"
    /\ probe.at = "done"
    /\ ~probe.failed

\* C28: a pass over the rows that an earlier pass left gives every instance
\* the total the first pass gave it, and an instance that no usage row
\* matches, by either strategy, ends a pass with a null total whatever total
\* it had before.
C28_BackfillRecomputes ==
    PassDone =>
        /\ probe.passes >= 2 => probe.instances = probe.once
        /\ \A j \in 1..Len(probe.instances) :
              (/\ ExactGroup(probe.instances[j], probe.usage) = {}
               /\ RangeGroup(probe.instances[j], probe.usage) = {})
                  => probe.instances[j].data_used_mb = NoInt

C28_Witness ==
    /\ PassDone
    /\ probe.passes = 2
    /\ Len(probe.instances) = 2
    /\ probe.given[1].data_used_mb = 5
    /\ probe.instances[1].data_used_mb = NoInt
    /\ probe.given[2].data_used_mb = 5
    /\ probe.instances[2].data_used_mb = 2

\* The usage rows with positive consumption that have the trimmed ICCID of
\* the instance bi and a date from its first to its last day, both included.
InPeriod(bi, usage) ==
    { k \in 1..Len(usage) :
        /\ usage[k].charged_consumption > 0
        /\ SqlTrim(usage[k].iccid.s) = SqlTrim(bi.iccid.s)
        /\ bi.start_time <= usage[k].usage_date
        /\ usage[k].usage_date <= bi.end_time }

\* C29: the date-range statement gives every instance whose total the exact
\* strategy left null, and that has a start and an end time, the rounded sum
\* in MB of the usage rows in its period; an instance with no such row keeps
\* its null total.
C29_DateRangeValue ==
    [][(AtRange /\ ~probe'.failed) =>
          \A j \in 1..Len(probe.instances) :
              LET bi == probe.instances[j]
                  rows == InPeriod(bi, probe.usage)
                  total == probe'.instances[j].data_used_mb
              IN  (bi.data_used_mb = NoInt /\ bi.start_time # NoInt
                       /\ bi.end_time # NoInt) =>
                      IF rows # {}
                      THEN IsRounded(total,
                                     SumConsumption(probe.usage, rows),
                                     BytesPerMB)
                      ELSE total = NoInt]_vars

C29_Witness ==
    /\ PassDone
    /\ Len(probe.usage) = 2
    /\ probe.usage[1].usage_date = 2
    /\ probe.usage[2].usage_date = 3
    /\ \E j \in 1..Len(probe.instances) :
          /\ ExactGroup(probe.instances[j], probe.usage) = {}
          /\ probe.instances[j].start_time = 2
          /\ probe.instances[j].end_time = 2
          /\ InPeriod(probe.instances[j], probe.usage) = {1}
          /\ probe.usage[2].charged_consumption > 0
          /\ probe.instances[j].data_used_mb = 1

\* ------------------------------------------------- fetchAll, page by page
\* Largest number of full pages that fit under the safety ceiling, for the
\* page sizes examined.
MaxPages == 4

\* Page sizes: the ceiling divided into 1 to MaxPages pages.
BatchSizes == { SafetyOffset \div pages : pages \in 1..MaxPages }

\* The maxRecords option: not given, that of the usage pipeline, or more
\* than a page.
MaxRecordsChoices == {0, MAX_RECORDS_PER_RUN, SafetyOffset \div 2}

\* What a successful response says in its content-range header: nothing,
\* no total ("0-999/*", or a value the pattern does not match), or a total.
ContentRanges ==
    {[kind |-> "absent"], [kind |-> "star"]}
        \cup { [kind |-> "total", total |-> n] :
                 n \in {0, SafetyOffset \div 2, 5 * SafetyOffset} }

\* The numbers of rows a page of the given size can hold: none, one, all
\* but one, all.
PageLengths(size) == {0, 1, size - 1, size}

\* offset += batchSize left out.
SameOffset(offset, size) == offset

\* offset += batchSize
NextOffset(offset, size) == offset + size

FetchInit ==
    /\ src = [t \in Tables |-> <<>>]
    /\ batchSize = 1
    /\ Idle
    /\ \E size \in BatchSizes :
       \E maxRecords \in MaxRecordsChoices :
           probe = [fn |-> "fetchAll", batchSize |-> size,
                    maxRecords |-> maxRecords, offset |-> 0, length |-> 0,
                    hasMore |-> TRUE, pages |-> 0, thrown |-> FALSE,
                    refused |-> 0, synced |-> FALSE, result |-> NoResult,
                    written |-> 0, watermarkPut |-> FALSE]

\* One iteration of the while loop: the server answers with n rows and the
\* header contentRange.
FetchIteration(n, contentRange) ==
    /\ probe.fn = "fetchAll"
    /\ probe.hasMore
    /\ LET length == probe.length + n
           offset == NextOffset(probe.offset, probe.batchSize)
       IN  IF probe.maxRecords # 0 /\ length >= probe.maxRecords
           THEN probe' = [probe EXCEPT !.length = length, !.hasMore = FALSE,
                                       !.pages = @ + 1]
           ELSE probe' =
                  [probe EXCEPT
                      !.length = length,
                      !.offset = offset,
                      !.pages = @ + 1,
                      !.hasMore =
                          ~ \/ contentRange.kind = "star"
                            \/ /\ contentRange.kind = "total"
                               /\ probe.offset + probe.batchSize
                                      >= contentRange.total
                            \/ n < probe.batchSize
                            \/ offset > SafetyOffset]
    /\ UNCHANGED worker

FetchNext ==
    \E n \in PageLengths(probe.batchSize) :
    \E contentRange \in ContentRanges :
        FetchIteration(n, contentRange)

\* Every request gets its response.
FetchSpec == FetchInit /\ [][FetchNext]_vars /\ WF_vars(FetchNext)

\* The loop of fetchAll has ended.
Returned == probe.fn = "fetchAll" /\ ~probe.hasMore

\* A response of n rows, with the total of its header if it has one, is one
\* of those that end the loop.
StopsOn(n, total) ==
    \/ n < probe.batchSize
    \/ total # NoInt /\ probe.offset + probe.batchSize >= total
    \/ probe.maxRecords # 0 /\ probe.length + n >= probe.maxRecords
    \/ probe.offset + probe.batchSize > SafetyOffset

\* C30: fetchAll returns whatever the successful responses are; an iteration
\* after which the loop goes on has moved the offset on by the page size, and
\* the loop ends with the iteration in which the page is short, the total of
\* the header is reached, maxRecords is reached or the offset passes the
\* safety ceiling.
C30_FetchAllTerminates ==
    /\ <>Returned
    /\ [][\A n \in PageLengths(probe.batchSize) :
          \A contentRange \in ContentRanges :
              FetchIteration(n, contentRange) =>
                  /\ probe'.hasMore =>
                         probe'.offset = probe.offset + probe.batchSize
                  /\ StopsOn(n, IF contentRange.kind = "total"
                                THEN contentRange.total ELSE NoInt)
                         => ~probe'.hasMore]_vars

C30_Witness ==
    /\ Returned
    /\ probe.maxRecords = 0
    /\ probe.pages = MaxPages + 1
    /\ probe.length = probe.pages * probe.batchSize
    /\ probe.offset > SafetyOffset

\* --------------------------------------- fetchAll, the content-range header
\* What the server puts in content-range: the exact count of the rows the
\* query selects ("0-999/5000"), no count ("0-999/*"), or no header.
Headers == {"total", "star", "absent"}

\* The pagination loop of fetchAll over the rows the query selects, with the
\* same kind of content-range header in every response.
RECURSIVE FetchPages(_, _, _, _, _, _)
FetchPages(header, rows, allRecords, offset, size, maxRecords) ==
    LET page == SubSeq(rows, offset + 1, Min(offset + size, Len(rows)))
        acc  == allRecords \o page
    IN  IF maxRecords # 0 /\ Len(acc) >= maxRecords THEN acc
        ELSE IF header = "star" THEN acc
        ELSE IF header = "total" /\ offset + size >= Len(rows) THEN acc
        ELSE IF Len(page) < size THEN acc
        ELSE IF offset + size > SafetyOffset THEN acc
        ELSE FetchPages(header, rows, acc, offset + size, size, maxRecords)

\* The result of fetchAll has not been computed for this header.
NotCalled == [called |-> FALSE]

HeaderInit ==
    /\ src = [t \in Tables |-> <<>>]
    /\ batchSize = 1
    /\ Idle
    /\ \E rows \in SourcesUpTo("usage", MaxRows) :
       \E watermark \in 0..MaxTime :
       \E size \in 1..MaxBatch :
       \E maxRecords \in {0, MAX_RECORDS_PER_RUN} :
           probe = [fn |-> "fetchPages", rows |-> rows,
                    watermark |-> watermark, batchSize |-> size,
                    maxRecords |-> maxRecords,
                    returned |-> [h \in Headers |-> NotCalled]]

\* fetchAll is called against a server that answers with the given header.
FetchWith(header) ==
    /\ probe.fn = "fetchPages"
    /\ ~probe.returned[header].called
    /\ probe' = [probe EXCEPT !.returned[header] =
                    [called |-> TRUE,
                     records |-> FetchPages(header,
                                            Filtered(probe.rows, probe.watermark),
                                            <<>>, 0, probe.batchSize,
                                            probe.maxRecords)]]
    /\ UNCHANGED worker

HeaderNext == \E header \in Headers : FetchWith(header)

HeaderSpec == HeaderInit /\ [][HeaderNext]_vars

\* C31: for the same source rows, watermark, page size and maxRecords,
\* fetchAll returns the same records under each kind of content-range
\* header, and when maxRecords is not given all the rows the filter selects.
C31_HeaderOnlyStopsEarly ==
    probe.fn = "fetchPages" =>
        \A g, h \in Headers :
            (probe.returned[g].called /\ probe.returned[h].called) =>
                /\ probe.returned[g].records = probe.returned[h].records
                /\ probe.maxRecords = 0 =>
                       probe.returned[h].records =
                           Filtered(probe.rows, probe.watermark)

\* ------------------------------------------- fetchAll, a refused request
\* A request whose response the error test let through: the pages fetched
\* so far are returned as the result.
FetchErrorIgnored ==
    /\ probe.fn = "fetchAll"
    /\ probe.hasMore
    /\ probe' = [probe EXCEPT !.hasMore = FALSE, !.pages = @ + 1,
                              !.refused = @ + 1]
    /\ UNCHANGED worker

\* One iteration of the while loop in which the response is not ok: the
\* error is thrown out of the loop and out of fetchAll.
FetchError ==
    /\ probe.fn = "fetchAll"
    /\ probe.hasMore
    /\ probe' = [probe EXCEPT !.hasMore = FALSE, !.thrown = TRUE,
                              !.pages = @ + 1, !.refused = @ + 1]
    /\ UNCHANGED worker

\* The pipeline from the return of fetchAll to its own return, over a
\* database that takes every row, and the watermark put that follows: an
\* error thrown by fetchAll lands in the catch block, before the first
\* INSERT, with recordsSynced at 0.
SyncAfterFetch ==
    /\ probe.fn = "fetchAll"
    /\ ~probe.hasMore
    /\ ~probe.synced
    /\ LET r == IF probe.thrown
                THEN [recordsSynced |-> 0, error |-> TRUE]
                ELSE [recordsSynced |-> probe.length, error |-> FALSE]
       IN  probe' = [probe EXCEPT
                        !.synced = TRUE,
                        !.result = r,
                        !.written = r.recordsSynced,
                        !.watermarkPut = ~r.error /\ r.recordsSynced > 0]
    /\ UNCHANGED worker

RefusedNext ==
    \/ FetchNext
    \/ FetchError
    \/ SyncAfterFetch

RefusedSpec == FetchInit /\ [][RefusedNext]_vars

Views == <<"mv_usage_daily", "mv_usage_monthly", "mv_usage_annual",
           "mv_bundle_expiry">>

\* The SyncResult lists a run can hold when it calls the refresh: without
\* and with a table error.
ResultLists ==
    { <<[table |-> "endpoints", recordsSynced |-> 1, error |-> err]>> :
        err \in BOOLEAN }

RefreshInit ==
    /\ src = [t \in Tables |-> <<>>]
    /\ batchSize = 1
    /\ Idle
    /\ \E rs \in ResultLists :
           probe = [fn |-> "refreshMaterialisedViews", view |-> 1,
                    concurrently |-> TRUE, attempts |-> <<>>,
                    raised |-> FALSE, results |-> rs, status |-> "none"]

\* RefreshStatement going on to the next view after a failed non-blocking
\* refresh.
RefreshStatementNoFallback(fail) ==
    /\ probe.fn = "refreshMaterialisedViews"
    /\ probe.view <= Len(Views)
    /\ probe' = [probe EXCEPT
                    !.attempts = Append(@, [view |-> Views[probe.view],
                                            concurrently |-> probe.concurrently,
                                            failed |-> fail]),
                    !.view = @ + 1]
    /\ UNCHANGED worker

\* One REFRESH MATERIALIZED VIEW statement of the loop over the views: the
\* non-blocking one, or the blocking one in the catch block of the first;
\* what the second throws is caught and logged.
RefreshStatement(fail) ==
    /\ probe.fn = "refreshMaterialisedViews"
    /\ probe.view <= Len(Views)
    /\ probe' = [probe EXCEPT
                    !.attempts = Append(@, [view |-> Views[probe.view],
                                            concurrently |-> probe.concurrently,
                                            failed |-> fail]),
                    !.concurrently = ~(probe.concurrently /\ fail),
                    !.view = IF probe.concurrently /\ fail THEN @ ELSE @ + 1]
    /\ UNCHANGED worker

\* scheduled() after the refresh returned: the status it persists.
SummaryAfterRefresh ==
    /\ probe.fn = "refreshMaterialisedViews"
    /\ probe.view > Len(Views)
    /\ probe.status = "none"
    /\ probe' = [probe EXCEPT !.status = Status(probe.results)]
    /\ UNCHANGED worker

RefreshNext ==
    \/ \E fail \in BOOLEAN : RefreshStatement(fail)
    \/ SummaryAfterRefresh

RefreshSpec == RefreshInit /\ [][RefreshNext]_vars

\* The place of a view in the list of the views.
PlaceOf(view) == CHOOSE k \in 1..Len(Views) : Views[k] = view

\* C33: the refresh raises nothing; the non-blocking refresh of the views is
\* attempted in the order of the list, the blocking refresh of a view is
\* attempted exactly after its non-blocking refresh failed, whatever the
\* blocking refresh does the next view follows, all four views have been
\* attempted when the refresh returns, and the status persisted afterwards
\* is the one the table results give.
C33_RefreshNeverRaisesNorStops ==
    probe.fn = "refreshMaterialisedViews" =>
        LET a == probe.attempts
        IN  /\ ~probe.raised
            /\ \A k \in 1..Len(a) :
                   IF a[k].concurrently
                   THEN \/ k = 1 /\ PlaceOf(a[k].view) = 1
                        \/ /\ k > 1
                           /\ PlaceOf(a[k].view) = PlaceOf(a[k - 1].view) + 1
                           /\ a[k - 1].concurrently => ~a[k - 1].failed
                   ELSE /\ k > 1
                        /\ a[k - 1].view = a[k].view
                        /\ a[k - 1].concurrently
                        /\ a[k - 1].failed
            /\ probe.view > Len(Views) =>
                   /\ \A v \in 1..Len(Views) :
                          \E k \in 1..Len(a) : a[k].view = Views[v]
                   /\ ~(Last(a).concurrently /\ Last(a).failed)
            /\ probe.status # "none" => probe.status = Status(probe.results)

\* Both refreshes of the second view failed, the third and the fourth view
\* were refreshed after it and the run's status is 'success'.
C33_Witness ==
    /\ probe.fn = "refreshMaterialisedViews"
    /\ probe.status = "success"
    /\ Len(probe.attempts) = 5
    /\ probe.attempts[2] = [view |-> "mv_usage_monthly", concurrently |-> TRUE,
                            failed |-> TRUE]
    /\ probe.attempts[3] = [view |-> "mv_usage_monthly", concurrently |-> FALSE,
                            failed |-> TRUE]
    /\ ~probe.attempts[4].failed
    /\ ~probe.attempts[5].failed

\* ------------------------------------------------------------ sync:last_run
\* C34: a run that has put sync:last_run (the key holds the run's "now")
\* ended with status 'success': no table pipeline reported an error and no
\* exception reached the handler.
C34_LastRunOnlyAfterSuccess ==
    (pc = "done" /\ now # Null /\ lastRun = now) =>
        /\ lastResult.status = "success"
        /\ \A k \in 1..Len(results) : ~results[k].error

\* ---------------------------------------------------------- overlapping runs
\* The invocations of scheduled() that may be in progress together: the
\* cron trigger's and the one POST /trigger starts with ctx.waitUntil.
Runs == {"cron", "manual"}

NotStarted == [pc |-> "idle", now |-> Null, watermark |-> Null, put |-> Null]

OverlapInit ==
    /\ src = [t \in Tables |-> <<>>]
    /\ batchSize = 1
    /\ Idle
    /\ \E t \in Tables :
       \E rows \in SourcesUpTo(t, MaxBatch) :
       \E size \in 1..MaxBatch :
           probe = [fn |-> "overlap", table |-> t, rows |-> rows,
                    batchSize |-> size, clock |-> 1, kv |-> Null,
                    run |-> [r \in Runs |-> NotStarted]]

\* Time passes.
Tick ==
    /\ probe.fn = "overlap"
    /\ probe.clock < MaxClock
    /\ probe' = [probe EXCEPT !.clock = @ + 1]
    /\ UNCHANGED worker

\* scheduled() of run r up to the call of the pipeline: the KV.get of the
\* watermark and "now".
RunSetup(r) ==
    /\ probe.fn = "overlap"
    /\ probe.run[r].pc = "idle"
    /\ probe' = [probe EXCEPT !.run[r] = [pc |-> "sync", now |-> probe.clock,
                                          watermark |-> probe.kv, put |-> Null]]
    /\ UNCHANGED worker

\* The table pipeline of run r over a database that takes every row, up to
\* the watermark put it leads to: of the column of the last record fetched
\* in syncUsage, of the run's "now" in scheduled() for the other tables.
RunSync(r) ==
    /\ probe.fn = "overlap"
    /\ probe.run[r].pc = "sync"
    /\ LET t    == probe.table
           recs == fetchAll(probe.rows, probe.run[r].watermark,
                            probe.batchSize, MaxRecordsOf(t))
           m    == MapRecords(recs)
       IN  probe' = [probe EXCEPT
                        !.run[r].pc = "commit",
                        !.run[r].put = IF Len(m) = 0 THEN Null
                                       ELSE IF t = "usage" THEN Last(recs).wm
                                       ELSE probe.run[r].now]
    /\ UNCHANGED worker

\* The watermark put of run r, if it has one to make.
RunCommit(r) ==
    /\ probe.fn = "overlap"
    /\ probe.run[r].pc = "commit"
    /\ probe' = [probe EXCEPT
                    !.run[r].pc = "done",
                    !.kv = IF probe.run[r].put # Null
                           THEN probe.run[r].put ELSE @]
    /\ UNCHANGED worker

OverlapNext ==
    \/ Tick
    \/ \E r \in Runs : RunSetup(r)
    \/ \E r \in Runs : RunSync(r)
    \/ \E r \in Runs : RunCommit(r)

OverlapSpec == OverlapInit /\ [][OverlapNext]_vars

\* C35: with two runs in progress together, no step lowers the stored
\* watermark of the table.
C35_OverlapNeverDecreases ==
    [][probe.fn = "overlap" => probe'.kv >= probe.kv]_vars

SqlDate(s) ==
    CASE s = "2026-01-02" -> 2
      [] s = "2026-01-03" -> 3
      [] OTHER -> NoInt

\* Usage events of the source for one ICCID and bundle: of the first or the
\* second sequence of the bundle, with no consumption or one MB.
UsageEvents ==
    [iccid : {Str("8944000000121")}, bundle_moniker : {Str("Gold")},
     sequence : {1, 2}, timestamp : {Str("2026-01-02T10:00:00Z")},
     charged_consumption : {0, 1048576}]

\* The columns of the row syncUsage inserts for the event r that the
\* backfill reads.  A column the INSERT does not name keeps its default,
\* NULL.
UsageColumnsRead(r) ==
    [iccid |-> esc(OrNull(r.iccid)),
     bundle_moniker |-> esc(OrNull(r.bundle_moniker)),
     sequence |-> IF "sequence" \in InsertColumns("usage")
                  THEN r.sequence ELSE NoInt,
     usage_date |-> IF Truthy(r.timestamp)
                    THEN SqlDate(substring(r.timestamp.s, 10)) ELSE NoInt,
     charged_consumption |-> r.charged_consumption]

TotalsInit ==
    /\ src = [t \in Tables |-> <<>>]
    /\ batchSize = 1
    /\ Idle
    /\ \E instances \in RowsUpTo(InstanceRows, 1) :
       \E events \in RowsUpTo(UsageEvents, MaxUsage) :
           probe = [fn |-> "syncUsage", instances |-> instances,
                    records |-> events]

\* The usage pipeline writes a row for every event (all tenants resolve, no
\* statement fails), and scheduled() goes on to the backfill.
SyncUsageRows ==
    /\ probe.fn = "syncUsage"
    /\ probe' = [fn |-> "backfillBundleUsage", at |-> "trim",
                 instances |-> probe.instances,
                 usage |-> [k \in 1..Len(probe.records) |->
                               UsageColumnsRead(probe.records[k])],
                 failed |-> FALSE, passes |-> 0, given |-> probe.instances,
                 once |-> <<>>, records |-> probe.records]
    /\ UNCHANGED worker

TotalsNext ==
    \/ SyncUsageRows
    \/ \E fail \in BOOLEAN : BackfillStatement(fail)

TotalsSpec == TotalsInit /\ [][TotalsNext]_vars

\* C37: after the usage pipeline wrote the events of the source and the
\* exact statement ran, every instance that has the ICCID, moniker and
\* sequence of an event with positive charged consumption has its total.
C37_ExactStrategyServesSyncedUsage ==
    (probe.fn = "backfillBundleUsage" /\ probe.at = "range" /\ ~probe.failed) =>
        \A j \in 1..Len(probe.instances) :
            (\E k \in SameTriple(probe.instances[j], probe.records) :
                 probe.records[k].charged_consumption > 0)
                => probe.instances[j].data_used_mb # NoInt

\* ------------------------------------------- the backfill, a failed statement
PassInit ==
    /\ src = [t \in Tables |-> <<>>]
    /\ batchSize = 1
    /\ Idle
    /\ \E instances \in RowsUpTo(InstanceRows, 1) :
       \E usage \in RowsUpTo(UsageRows, 1) :
       \E rs \in ResultLists :
           probe = [fn |-> "backfillBundleUsage", at |-> "trim",
                    instances |-> instances, usage |-> usage,
                    failed |-> FALSE, passes |-> 0, given |-> instances,
                    once |-> <<>>, results |-> rs, status |-> "none"]

\* scheduled() after backfillBundleUsage returned: the view refresh and the
\* status it persists.
RefreshAfterBackfill ==
    /\ probe.fn = "backfillBundleUsage"
    /\ probe.at = "done"
    /\ probe' = [probe EXCEPT !.at = "refreshed",
                              !.status = Status(probe.results)]
    /\ UNCHANGED worker

PassNext ==
    \/ \E fail \in BOOLEAN : BackfillStatement(fail)
    \/ RefreshAfterBackfill

PassSpec == PassInit /\ [][PassNext]_vars

\* C38: a statement of the backfill that fails ends the pass without any
\* other statement and leaves the rows as the statements before it left
\* them, all totals null when the reset was the last of them; the run goes
\* on to the view refresh and persists the status the table results give.
C38_BackfillFailureLeavesPartialPass ==
    /\ []((probe.fn = "backfillBundleUsage" /\ probe.failed) =>
             /\ probe.at \in {"done", "refreshed"}
             /\ probe.at = "done" => ENABLED RefreshAfterBackfill
             /\ probe.at = "refreshed" =>
                    probe.status = Status(probe.results))
    /\ [][(probe.fn = "backfillBundleUsage" /\ probe'.failed) =>
              /\ probe'.instances = probe.instances
              /\ ~probe.failed =>
                     /\ probe'.at = "done"
                     /\ probe.at = "exact" =>
                            \A j \in 1..Len(probe'.instances) :
                                probe'.instances[j].data_used_mb = NoInt]_vars

\* The exact statement failed: the total the instance had before the pass is
\* gone, the refresh was called and the status is 'success'.
C38_Witness ==
    /\ probe.fn = "backfillBundleUsage"
    /\ probe.failed
    /\ probe.at = "refreshed"
    /\ probe.status = "success"
    /\ Len(probe.instances) = 1
    /\ probe.given[1].data_used_mb = 5
    /\ probe.instances[1].data_used_mb = NoInt
    /\ probe.instances[1].iccid = Str("8944000000121")

\* ------------------------------------------------- the registry of tenants
\* C39: whatever resolveTenantId returns that a pipeline does not skip is,
\* as the tenant_id column gets it, a key of the registry the run has seeded.
C39_ResolvedTenantIsSeeded ==
    (probe.fn = "resolveTenantId" /\ probe.returned /\ ~Skipped(probe.value)) =>
        esc(probe.value).s \in rpt_tenants

====
